---- MODULE Spec2Model ----
(***************************************************************************)
(* Model of the retrieval-augmented generation pipeline of                 *)
(* oasm-nuclei-gen: NucleiRunner's classification of the validator output  *)
(* (app/core/nuclei_runner.py) and NucleiAgent.generate_template's         *)
(* retrieve / generate / validate / refine loop (app/core/agent.py).       *)
(*                                                                         *)
(* A text is a sequence of lines, a line a sequence of words.  Python's    *)
(* substring tests ('error' in line_lower) are modelled per word by the    *)
(* table KeywordsIn, and multi-word keywords by adjacent words.            *)
(***************************************************************************)
EXTENDS Integers, Sequences, FiniteSets, TLC

VARIABLES
    \* ---- NucleiAgent.generate_template (one run) ----
    pc,                  \* position of the run
    rag_initialized,     \* RAGEngine.initialized
    max_retries,         \* config template_generation.max_retries
    validation_required, \* config template_generation.validation_required
    similar_templates,   \* result of retrieve_similar_templates
    attempt,             \* loop variable of "for attempt in range(max_retries)"
    generated_template,  \* local generated_template (None or a text)
    validation_result,   \* local validation_result (None or a ValidationResult)
    response,            \* the returned TemplateGenerationResponse (None until return)
    escaped,             \* TRUE iff an exception left generate_template
    \* ---- observation of the run (history, not program state) ----
    last_step,           \* the most recent I/O step and its outcome
    prev_step,           \* the I/O step before it
    retrieve_calls,      \* number of retrieve_similar_templates calls
    llm_calls,           \* number of llm.agenerate calls (generate and refine)
    validate_calls,      \* number of validate_template calls
    rejections,          \* number of validator calls that returned is_valid = False
    unavailable_seen,    \* a validation returned the binary-not-found result
    steps_after_unavailable, \* LLM / validator calls made after that
    accepted,            \* None, or what the accepting validator call saw
    failure_cause,       \* which exception reached the outer handler
    retrieve_outcome,    \* how the similarity search of the run ended
    \* ---- NucleiRunner._parse_validation_output (pure function harness) ----
    p_pc, p_stdout, p_stderr, p_rc, p_result,
    \* ---- NucleiRunner.validate_template (one validation call) ----
    r_pc,                \* position of the call
    r_proc,              \* what the validator process of the call does
    r_child,             \* the child process: none, running, exited, reaped
    r_terminals,         \* the terminal states the call has entered
    r_result,            \* the ValidationResult returned (None until return)
    \* ---- similarity search over an attached collection ----
    s_pc,                \* "idle", or how many searches were observed
    s_chunks,            \* the chunks of the collection
    s_query,             \* the query whose distances the chunks carry
    s_last,              \* the most recent search call and its result
    s_prev,              \* the search call before it
    \* ---- the collection and the stores / engines of its clients ----
    db,                  \* the named collection in ChromaDB
    collection,          \* per client: VectorDBService.collection
    initialized,         \* per client: RAGEngine.initialized
    c_pc,                \* per client: position inside initialize
    c_last,              \* per client: the last operation and its outcome
    since_delete,        \* per client: deleted and not attached again since
    creations,           \* number of collections created so far
    since_clear,         \* per client: the dict of a successful clear that no
                         \* add, reload, delete or clear has followed yet
    templates_dir,       \* rag_data/nuclei_templates on disk: absent, or the
                         \* chunk ids its template files load as
    \* ---- VectorDBService._split_document over a series of ingestions ----
    g_pc,                \* "idle", or "ingesting"
    g_log,               \* the ingestions so far: the document and its chunks
    \* ---- VectorDBService.add_documents (one call and its caller) ----
    a_pc,                \* position of the call
    a_caller,            \* who awaits the call: add_documents itself,
                         \* bulk_load_templates, or update_rag_data
    a_attached,          \* self.collection is set
    a_documents,         \* the documents given
    a_processed,         \* local processed_docs
    a_i,                 \* loop variable i of the batch loop
    a_total_added,       \* local total_added
    a_stored,            \* the chunk ids in the collection
    a_embeds,            \* the batches embedded by the call, in order
    a_inserts,           \* the batches inserted by the call, in order
    a_result,            \* what the caller reports (None until the call ends)
    \* ---- _extract_yaml_content of the agent and of the service ----
    x_pc,                \* "idle", "input" or "extracted"
    x_response,          \* the text of the LLM response
    x_agent,             \* NucleiAgent's payload (None until extracted)
    x_service,           \* NucleiTemplateService's payload
    \* ---- TokenAuthMiddleware.dispatch (one request) ----
    m_pc,                \* "idle", "received" or "answered"
    m_request,           \* the path and the headers of the request
    m_api_token,         \* os.getenv("API_TOKEN")
    m_status,            \* the status code of the response (0 until answered)
    m_handler_ran,       \* call_next was awaited
    \* ---- NucleiTemplateService.generate_template (one run) ----
    n_pc,                \* position of the run
    n_settings,          \* self.settings.template_generation
    n_attempt,           \* loop variable attempt
    n_generated_template,      \* local generated_template
    n_last_validation_result,  \* local last_validation_result
    n_response,          \* the returned response (None until return)
    n_history,           \* per attempt: the content generated, and whether
                         \* the validator accepts it
    \* ---- concurrent NucleiRunner.validate_template calls ----
    t_pc,                \* per call: its position
    t_content,           \* per call: template_content
    t_path,              \* per call: temp_file_path (None until created)
    t_files,             \* the temporary directory: per name, the file
    t_read,              \* per call: what its validator process has read
    t_terminal,          \* per call: how its validation ended
    t_foreign            \* a call has read or deleted a file of another call

vars == <<pc, rag_initialized, max_retries, validation_required, similar_templates,
          attempt, generated_template, validation_result, response, escaped,
          last_step, prev_step, retrieve_calls, llm_calls, validate_calls,
          rejections, unavailable_seen, steps_after_unavailable, accepted,
          failure_cause, retrieve_outcome, p_pc, p_stdout, p_stderr, p_rc, p_result,
          r_pc, r_proc, r_child, r_terminals, r_result,
          s_pc, s_chunks, s_query, s_last, s_prev,
          db, collection, initialized, c_pc, c_last, since_delete, creations,
          since_clear, templates_dir, g_pc, g_log,
          a_pc, a_caller, a_attached, a_documents, a_processed, a_i,
          a_total_added, a_stored, a_embeds, a_inserts, a_result,
          x_pc, x_response, x_agent, x_service,
          m_pc, m_request, m_api_token, m_status, m_handler_ran,
          n_pc, n_settings, n_attempt, n_generated_template,
          n_last_validation_result, n_response, n_history,
          t_pc, t_content, t_path, t_files, t_read, t_terminal, t_foreign>>

agentVars == <<pc, rag_initialized, max_retries, validation_required,
               similar_templates, attempt, generated_template, validation_result,
               response, escaped, last_step, prev_step, retrieve_calls, llm_calls,
               validate_calls, rejections, unavailable_seen,
               steps_after_unavailable, accepted, failure_cause, retrieve_outcome>>

parseVars == <<p_pc, p_stdout, p_stderr, p_rc, p_result>>

runVars == <<r_pc, r_proc, r_child, r_terminals, r_result>>

searchVars == <<s_pc, s_chunks, s_query, s_last, s_prev>>

storeVars == <<db, collection, initialized, c_pc, c_last, since_delete, creations,
               since_clear, templates_dir>>

splitVars == <<g_pc, g_log>>

addVars == <<a_pc, a_caller, a_attached, a_documents, a_processed, a_i,
             a_total_added, a_stored, a_embeds, a_inserts, a_result>>

\* The variables of the harnesses that follow the store.
extractVars == <<x_pc, x_response, x_agent, x_service>>

authVars == <<m_pc, m_request, m_api_token, m_status, m_handler_ran>>

serviceVars == <<n_pc, n_settings, n_attempt, n_generated_template,
                 n_last_validation_result, n_response, n_history>>

tempVars == <<t_pc, t_content, t_path, t_files, t_read, t_terminal, t_foreign>>

auxVars == <<splitVars, addVars, extractVars, authVars, serviceVars, tempVars>>

baseVars == <<agentVars, parseVars, runVars, searchVars, storeVars>>

\* What the actions of one of these harnesses leave alone.
notSplitVars == <<baseVars, addVars, extractVars, authVars, serviceVars,
                   tempVars>>
notAddVars == <<baseVars, splitVars, extractVars, authVars, serviceVars,
                 tempVars>>
notExtractVars == <<baseVars, splitVars, addVars, authVars, serviceVars,
                     tempVars>>
notAuthVars == <<baseVars, splitVars, addVars, extractVars, serviceVars,
                  tempVars>>
notServiceVars == <<baseVars, splitVars, addVars, extractVars, authVars,
                     tempVars>>

notTempVars == <<baseVars, splitVars, addVars, extractVars, authVars,
                 serviceVars>>

\* ------------------------------------------------------------------ bounds

\* Largest configured retry budget explored (the code's default is 3).
MaxRetriesBound == 3

\* Largest number of lines of a validator output stream explored.
MaxLines == 2

\* Largest number of documents a retrieval returns in the model.
MaxDocs == 2

\* ------------------------------------------------------------- text helpers

\* Keywords that occur as substrings of a lower-cased word.
KeywordsIn(word) ==
    CASE word = "error:"    -> {"error"}
      [] word = "error"     -> {"error"}
      [] word = "errors"    -> {"error"}
      [] word = "invalid"   -> {"invalid"}
      [] word = "failed"    -> {"failed"}
      [] word = "fatal"     -> {"fatal"}
      [] word = "warning"   -> {"warning", "warn"}
      [] word = "warn"      -> {"warn"}
      [] word = "loaded"    -> {"loaded"}
      [] word = "template"  -> {"template"}
      [] word = "templates" -> {"template"}
      [] OTHER              -> {}

\* str.lower() on the words the model uses.
Lower(word) ==
    CASE word = "ERROR"   -> "error"
      [] word = "WARNING" -> "warning"
      [] word = "Could"   -> "could"
      [] word = "HIGH"    -> "high"
      [] word = "High"    -> "high"
      [] word = "CRITICAL" -> "critical"
      [] OTHER            -> word

\* kw in line.lower(), for a one-word keyword.
HasKeyword(line, kw) ==
    \E i \in 1..Len(line) : kw \in KeywordsIn(Lower(line[i]))

\* "<w1> <w2>" in line.lower(), for a two-word keyword.
HasPhrase(line, w1, w2) ==
    \E i \in 1..(Len(line) - 1) : Lower(line[i]) = w1 /\ Lower(line[i + 1]) = w2

\* A text is represented by text.split('\n'), so it always has at least one
\* line; the empty string is the single blank line.
EmptyText == << <<>> >>

\* str.strip() of a text: leading and trailing blank lines are removed.
RECURSIVE StripLeft(_)
StripLeft(lines) ==
    IF lines = <<>> THEN <<>>
    ELSE IF Head(lines) = <<>> THEN StripLeft(Tail(lines))
    ELSE lines

RECURSIVE StripRight(_)
StripRight(lines) ==
    IF lines = <<>> THEN <<>>
    ELSE IF lines[Len(lines)] = <<>> THEN StripRight(SubSeq(lines, 1, Len(lines) - 1))
    ELSE lines

Strip(text) ==
    LET kept == StripRight(StripLeft(text))
    IN  IF kept = <<>> THEN EmptyText ELSE kept

\* Python truthiness of a string: "if text:".
Truthy(text) == text # EmptyText

\* ------------------------------------------------------- ValidationResult

ValidationResult(is_valid, errors, warnings) ==
    [is_valid |-> is_valid, errors |-> errors, warnings |-> warnings]

\* One entry of errors / warnings: a line of the output, or a synthesized
\* message (kind) carrying the exit code or the text it quotes.
Msg(kind, rc, text) == [kind |-> kind, rc |-> rc, text |-> text]

LineMsg(line) == Msg("line", 0, <<line>>)

\* ---------------------------------- NucleiRunner._parse_validation_output

ErrorKeywordsStderr == {"error", "invalid", "failed", "fatal"}
WarningKeywords == {"warning", "warn"}
ErrorKeywordsStdout == {"error", "invalid"}

\* Classification of one stderr line: "error", "warning" or "skip".
ClassifyStderrLine(line) ==
    IF line = <<>> THEN "skip"
    ELSE IF \E kw \in ErrorKeywordsStderr : HasKeyword(line, kw) THEN "error"
    ELSE IF \E kw \in WarningKeywords : HasKeyword(line, kw) THEN "warning"
    ELSE IF HasPhrase(line, "could", "not") \/ HasPhrase(line, "unable", "to")
         THEN "error"
    ELSE "skip"

\* A stdout classification that uses the stderr keywords and no skip rule.
ClassifyStdoutLineLikeStderr(line) ==
    IF line = <<>> THEN "skip"
    ELSE IF \E kw \in ErrorKeywordsStderr : HasKeyword(line, kw) THEN "error"
    ELSE "skip"

\* Classification of one stdout line: "error" or "skip".
ClassifyStdoutLine(line) ==
    IF line = <<>> THEN "skip"
    ELSE IF HasKeyword(line, "loaded") /\ HasKeyword(line, "template") THEN "skip"
    ELSE IF \E kw \in ErrorKeywordsStdout : HasKeyword(line, kw) THEN "error"
    ELSE "skip"

\* The stderr lines of the given class, in order, as messages.
RECURSIVE CollectStderr(_, _)
CollectStderr(lines, class) ==
    IF lines = <<>> THEN <<>>
    ELSE (IF ClassifyStderrLine(Head(lines)) = class
          THEN <<LineMsg(Head(lines))>> ELSE <<>>)
         \o CollectStderr(Tail(lines), class)

\* The stdout lines classified as errors, in order, as messages.
RECURSIVE CollectStdout(_)
CollectStdout(lines) ==
    IF lines = <<>> THEN <<>>
    ELSE (IF ClassifyStdoutLine(Head(lines)) = "error"
          THEN <<LineMsg(Head(lines))>> ELSE <<>>)
         \o CollectStdout(Tail(lines))

\* A runner that forgets to synthesize the generic errors.
GenericErrorsNone(stdout, stderr, return_code) == <<>>

\* The generic errors added when the exit code is nonzero and no line matched.
GenericErrors(stdout, stderr, return_code) ==
    <<Msg("return_code", return_code, EmptyText)>>
    \o (IF Truthy(stdout) THEN <<Msg("stdout", 0, stdout)>> ELSE <<>>)
    \o (IF Truthy(stderr) THEN <<Msg("stderr", 0, stderr)>> ELSE <<>>)

ParseValidationOutput(stdout, stderr, return_code) ==
    LET errLines == Strip(stderr)
        outLines == Strip(stdout)
        parsed   == CollectStderr(errLines, "error") \o CollectStdout(outLines)
        warnings == CollectStderr(errLines, "warning")
        is_valid0 == (return_code = 0) /\ (parsed = <<>>)
        errors   == IF ~is_valid0 /\ parsed = <<>> /\ return_code # 0
                    THEN parsed \o GenericErrors(stdout, stderr, return_code)
                    ELSE parsed
        is_valid == IF return_code = 0 /\ errors = <<>> THEN TRUE ELSE is_valid0
    IN  ValidationResult(is_valid, errors, warnings)


\* --------------------------------------------- the validator process

\* Lines a validator writes, as used below.
ErrMissingInfo == <<"error:", "missing", "info", "field">>
ErrCouldNot    == <<"Could", "not", "parse", "template">>
WarnDeprecated == <<"WARNING", "deprecated", "field">>
WarnCouldNot   == <<"WARNING", "Could", "not", "load", "helper">>
ErrNeutral     == <<"nuclei", "engine">>
OutLoaded      == <<"templates", "loaded">>
OutInvalid     == <<"invalid", "syntax">>
OutFailed      == <<"validation", "failed">>
OutLoadedErrors == <<"templates", "loaded", "errors">>
OutWarn        == <<"WARNING", "slow", "response">>
OutNeutral     == <<"done">>
TimedOutLine   == <<"Nuclei", "validation", "timed", "out">>
SubprocessErrorLine == <<"Subprocess", "error:">>

\* What happens to the spawned validator: it completes with its output and
\* exit code, exceeds the timeout, cannot be spawned because the binary is
\* missing, or subprocess.run fails otherwise.
Completed(stdout, stderr, rc) ==
    [kind |-> "completed", stdout |-> stdout, stderr |-> stderr, rc |-> rc]
TimedOut == [kind |-> "timeout", stdout |-> EmptyText, stderr |-> EmptyText, rc |-> 0]
NotFound == [kind |-> "notfound", stdout |-> EmptyText, stderr |-> EmptyText, rc |-> 0]
OsError  == [kind |-> "oserror", stdout |-> EmptyText, stderr |-> EmptyText, rc |-> 0]

\* A _run_subprocess that reports a missing binary like any other failure
\* to run the process.
RunSubprocessSwallowing(proc) ==
    CASE proc.kind = "completed" ->
           [raised |-> FALSE, stdout |-> Strip(proc.stdout),
            stderr |-> Strip(proc.stderr), rc |-> proc.rc]
      [] proc.kind = "timeout" ->
           [raised |-> FALSE, stdout |-> EmptyText,
            stderr |-> <<TimedOutLine>>, rc |-> 1]
      [] OTHER ->
           [raised |-> FALSE, stdout |-> EmptyText,
            stderr |-> <<SubprocessErrorLine>>, rc |-> 1]

\* NucleiRunner._run_subprocess: (stdout, stderr, returncode), or the
\* FileNotFoundError it re-raises.
RunSubprocess(proc) ==
    CASE proc.kind = "completed" ->
           [raised |-> FALSE, stdout |-> Strip(proc.stdout),
            stderr |-> Strip(proc.stderr), rc |-> proc.rc]
      [] proc.kind = "timeout" ->
           [raised |-> FALSE, stdout |-> EmptyText,
            stderr |-> <<TimedOutLine>>, rc |-> 1]
      [] proc.kind = "notfound" ->
           [raised |-> TRUE, stdout |-> EmptyText, stderr |-> EmptyText, rc |-> 0]
      [] OTHER ->
           [raised |-> FALSE, stdout |-> EmptyText,
            stderr |-> <<SubprocessErrorLine>>, rc |-> 1]

BinaryNotFoundResult ==
    ValidationResult(FALSE, <<Msg("binary_not_found", 0, EmptyText)>>, <<>>)

\* NucleiRunner._run_validation
RunValidation(proc) ==
    LET r == RunSubprocess(proc)
    IN  IF r.raised THEN BinaryNotFoundResult
        ELSE ParseValidationOutput(r.stdout, r.stderr, r.rc)

\* ------------------------------- harness of _parse_validation_output

StderrPool == {<<>>, ErrMissingInfo, ErrCouldNot, WarnDeprecated, WarnCouldNot,
               ErrNeutral}
StdoutPool == {<<>>, OutLoaded, OutLoadedErrors, OutInvalid, OutFailed, OutWarn,
               OutNeutral}
ExitCodes  == {0, 1, 2}

\* The stripped texts of at most MaxLines lines over a pool of lines.
StrippedTexts(pool) ==
    {EmptyText} \cup
    {t \in UNION {[1..n -> pool] : n \in 1..MaxLines} :
        t[1] # <<>> /\ t[Len(t)] # <<>>}

NoValue == <<>>
Some(x) == <<x>>
Get(o) == o[1]

AgentIdle ==
    /\ pc = "idle"
    /\ rag_initialized = FALSE
    /\ max_retries = 0
    /\ validation_required = FALSE
    /\ similar_templates = <<>>
    /\ attempt = -1
    /\ generated_template = NoValue
    /\ validation_result = NoValue
    /\ response = NoValue
    /\ escaped = FALSE
    /\ last_step = NoValue
    /\ prev_step = NoValue
    /\ retrieve_calls = 0
    /\ llm_calls = 0
    /\ validate_calls = 0
    /\ rejections = 0
    /\ unavailable_seen = FALSE
    /\ steps_after_unavailable = 0
    /\ accepted = NoValue
    /\ failure_cause = "none"
    /\ retrieve_outcome = "none"

\* No _parse_validation_output call is being observed.
ParseIdle ==
    /\ p_pc = "idle"
    /\ p_stdout = EmptyText
    /\ p_stderr = EmptyText
    /\ p_rc = 0
    /\ p_result = NoValue

\* No validate_template call is in progress.
RunIdle ==
    /\ r_pc = "idle"
    /\ r_proc = NotFound
    /\ r_child = "none"
    /\ r_terminals = {}
    /\ r_result = NoValue

\* No search is being observed.
SearchIdle ==
    /\ s_pc = "idle"
    /\ s_chunks = {}
    /\ s_query = [kind |-> "none", level |-> "", tags |-> <<>>]
    /\ s_last = NoValue
    /\ s_prev = NoValue

\* No ingestion is being observed.
SplitIdle ==
    /\ g_pc = "idle"
    /\ g_log = <<>>

\* No add_documents call is being observed.
AddIdle ==
    /\ a_pc = "idle"
    /\ a_caller = "none"
    /\ a_attached = FALSE
    /\ a_documents = <<>>
    /\ a_processed = <<>>
    /\ a_i = 0
    /\ a_total_added = 0
    /\ a_stored = {}
    /\ a_embeds = <<>>
    /\ a_inserts = <<>>
    /\ a_result = NoValue

\* No extraction is being observed.
ExtractIdle ==
    /\ x_pc = "idle"
    /\ x_response = EmptyText
    /\ x_agent = NoValue
    /\ x_service = NoValue

\* A request: its path, its "token" header and its Authorization header
\* (None when the header is absent).
Request(path, token, authorization) ==
    [path |-> path, token |-> token, authorization |-> authorization]

\* No request is being observed.
AuthIdle ==
    /\ m_pc = "idle"
    /\ m_request = Request("", NoValue, NoValue)
    /\ m_api_token = NoValue
    /\ m_status = 0
    /\ m_handler_ran = FALSE

\* config_service.py 66-72: the declared fields of
\* TemplateGenerationSettings.
TemplateGenerationSettings(max) ==
    [max_retries |-> max, output_format |-> "yaml", include_metadata |-> TRUE]

\* No run of the service is being observed.
ServiceIdle ==
    /\ n_pc = "idle"
    /\ n_settings = TemplateGenerationSettings(0)
    /\ n_attempt = 0
    /\ n_generated_template = NoValue
    /\ n_last_validation_result = NoValue
    /\ n_response = NoValue
    /\ n_history = <<>>

\* Number of validate_template calls in flight together.
MaxValidations == 2

Calls == 1..MaxValidations

\* The names NamedTemporaryFile can give a file in the temporary directory.
TempNames == {"tmpa.yaml", "tmpb.yaml", "tmpc.yaml"}

\* No validate_template call is being observed.
TempIdle ==
    /\ t_pc = [c \in Calls |-> "idle"]
    /\ t_content = [c \in Calls |-> ""]
    /\ t_path = [c \in Calls |-> NoValue]
    /\ t_files = [n \in TempNames |-> NoValue]
    /\ t_read = [c \in Calls |-> {}]
    /\ t_terminal = [c \in Calls |-> NoValue]
    /\ t_foreign = FALSE

AuxIdle ==
    SplitIdle /\ AddIdle /\ ExtractIdle /\ AuthIdle /\ ServiceIdle /\ TempIdle

\* The processes that open the collection: the API server, and a job run
\* beside it (the standalone scheduler, the ingestion script).
Clients == {"api", "job"}

\* The named collection: whether it exists, which creation it is, and the
\* ids of its chunks.
Db(exists, gen, chunks) == [exists |-> exists, gen |-> gen, chunks |-> chunks]

NoCollection == Db(FALSE, 0, {})

\* No store is being observed.
StoreIdle ==
    /\ db = NoCollection
    /\ collection = [c \in Clients |-> NoValue]
    /\ initialized = [c \in Clients |-> FALSE]
    /\ c_pc = [c \in Clients |-> "off"]
    /\ c_last = [c \in Clients |-> NoValue]
    /\ since_delete = [c \in Clients |-> FALSE]
    /\ creations = 0
    /\ since_clear = [c \in Clients |-> NoValue]
    /\ templates_dir = NoValue

InitParse ==
    /\ AgentIdle
    /\ RunIdle
    /\ SearchIdle
    /\ StoreIdle
    /\ AuxIdle
    /\ p_pc = "input"
    /\ p_stdout \in StrippedTexts(StdoutPool)
    /\ p_stderr \in StrippedTexts(StderrPool)
    /\ p_rc \in ExitCodes
    /\ p_result = NoValue

\* One call of _parse_validation_output on the drawn output.
ParseStep ==
    /\ p_pc = "input"
    /\ p_result' = Some(ParseValidationOutput(p_stdout, p_stderr, p_rc))
    /\ p_pc' = "parsed"
    /\ UNCHANGED <<p_stdout, p_stderr, p_rc>>
    /\ UNCHANGED <<agentVars, runVars, searchVars, storeVars, auxVars>>

NextParse == ParseStep

SpecParse == InitParse /\ [][NextParse]_vars

\* C10: for every validator stdout, stderr and exit code the result of
\* _parse_validation_output has is_valid = (exit code 0 and no errors), and a
\* nonzero exit code gives is_valid = False with a non-empty errors list.
C10_ExitCodeInvariant ==
    p_pc = "parsed" =>
        LET r == Get(p_result)
        IN  /\ r.is_valid = (p_rc = 0 /\ r.errors = <<>>)
            /\ (p_rc # 0 => ~r.is_valid /\ r.errors # <<>>)

\* A nonzero exit with no error-classified line was parsed.
C10_Witness ==
    /\ p_pc = "parsed"
    /\ p_rc # 0
    /\ CollectStderr(p_stderr, "error") \o CollectStdout(p_stdout) = <<>>
    /\ Truthy(p_stdout)
    /\ ~Get(p_result).is_valid

\* ------------------------------------------------ the LLM's responses

\* "[fence]" stands for the three-backquote markdown fence.
FenceYaml   == <<"[fence]yaml">>
FenceClose  == <<"[fence]">>
IdLine      == <<"id:", "sqli-login">>
NullIdLine  == <<"id:">>
InfoLine    == <<"info:">>
ProseLine   == <<"Here", "is", "the", "template:">>
CommentLine == <<"#", "generated">>

\* The prefixes of a word among those _extract_yaml_content tests.
PrefixesOf(word) ==
    CASE word = "[fence]yaml" -> {"[fence]yaml", "[fence]"}
      [] word = "[fence]yml"  -> {"[fence]yml", "[fence]"}
      [] word = "[fence]"     -> {"[fence]"}
      [] word = "#"       -> {"#"}
      [] word = "**"      -> {"**", "*"}
      [] word = "*"       -> {"*"}
      [] word = "id:"     -> {"id:"}
      [] word = "info:"   -> {"info:"}
      [] OTHER            -> {}

\* line.strip().startswith(prefix)
StartsWith(line, prefix) == line # <<>> /\ prefix \in PrefixesOf(line[1])

SkippedPrefixes == {"[fence]", "#", "**", "*"}

RECURSIVE ExtractLoop(_, _, _)
ExtractLoop(lines, in_yaml_block, yaml_lines) ==
    IF lines = <<>> THEN yaml_lines
    ELSE LET line == Head(lines)
         IN  IF StartsWith(line, "[fence]yaml") \/ StartsWith(line, "[fence]yml")
             THEN ExtractLoop(Tail(lines), TRUE, yaml_lines)
             ELSE IF line = FenceClose /\ in_yaml_block
             THEN yaml_lines
             ELSE IF in_yaml_block
                     \/ ~(\E prefix \in SkippedPrefixes : StartsWith(line, prefix))
             THEN ExtractLoop(Tail(lines), in_yaml_block, Append(yaml_lines, line))
             ELSE ExtractLoop(Tail(lines), in_yaml_block, yaml_lines)

\* NucleiAgent._extract_yaml_content
ExtractYamlContent(content) ==
    LET yaml_content == Strip(ExtractLoop(content, FALSE, <<>>))
    IN  IF ~Truthy(yaml_content) THEN content ELSE yaml_content

\* What the LLM may answer: a fenced template, a bare template without an
\* id, only whitespace, and a template whose id is null.
RespFenced == <<FenceYaml, IdLine, InfoLine, FenceClose>>
RespPlain  == <<InfoLine>>
RespBlank  == <<<<>>, <<>>>>
RespNullId == <<NullIdLine, InfoLine>>
LLMResponses == {RespFenced, RespPlain, RespBlank, RespNullId}

\* Why an llm.agenerate call fails.
LLMFailures == {"timeout", "provider_error"}

\* The outcomes of one llm.agenerate call.
LLMOutcomes ==
    {[ok |-> TRUE, text |-> r, reason |-> "none"] : r \in LLMResponses} \cup
    {[ok |-> FALSE, text |-> EmptyText, reason |-> f] : f \in LLMFailures}

\* response.generations[0][0].text.strip(), then _extract_yaml_content
ContentOf(text) == ExtractYamlContent(Strip(text))

\* The prompts sent to the LLM.
Prompt(kind, context, errors, warnings, template, note) ==
    [kind |-> kind, context |-> context, errors |-> errors,
     warnings |-> warnings, template |-> template, note |-> note]

NoPrompt == Prompt("none", <<>>, <<>>, <<>>, NoValue, "none")

\* RAGEngine.format_retrieval_context
FormatRetrievalContext(retrieved_docs) ==
    IF retrieved_docs = <<>> THEN <<"No similar templates found.">>
    ELSE [i \in 1..Len(retrieved_docs) |-> retrieved_docs[i]]

\* The user prompt of _generate_template_content
GeneratePrompt(retrieval_context) ==
    Prompt("generate", retrieval_context, <<>>, <<>>, NoValue, "none")

\* A refinement prompt that embeds no validation errors.
RefinePromptNoErrors(template_content, result) ==
    Prompt("refine", <<>>, <<>>, result.warnings, Some(template_content), "none")

\* The refinement prompt of _refine_template
RefinePrompt(template_content, result) ==
    Prompt("refine", <<>>, result.errors, result.warnings,
           Some(template_content), "none")

\* --------------------------------------------------- the response

\* NucleiAgent._extract_template_id: the declared id, None (NoValue) when
\* the id is declared null, else a generated fallback id.
ExtractTemplateId(template_content) ==
    IF \E i \in 1..Len(template_content) :
          Len(template_content[i]) = 2 /\ template_content[i][1] = "id:"
    THEN LET i == CHOOSE j \in 1..Len(template_content) :
                     Len(template_content[j]) = 2 /\ template_content[j][1] = "id:"
         IN  Some(template_content[i][2])
    ELSE IF \E i \in 1..Len(template_content) : template_content[i] = NullIdLine
    THEN NoValue
    ELSE Some("generated_uuid8")

\* similar_templates[:3]
PreviewCount == 3

Previews(docs) ==
    SubSeq(docs, 1, IF Len(docs) < PreviewCount THEN Len(docs) ELSE PreviewCount)

\* A success response that reports the loop index instead of attempt + 1.
SuccessResponseIndex(template_id, content, result, docs, att) ==
    [success |-> TRUE, template_id |-> template_id, generated_template |-> content,
     validation_result |-> result, retrieval_context |-> Previews(docs),
     generation_attempts |-> att, error |-> "none"]

\* The response built at agent.py 152-165.
SuccessResponse(template_id, content, result, docs, att) ==
    [success |-> TRUE, template_id |-> template_id, generated_template |-> content,
     validation_result |-> result, retrieval_context |-> Previews(docs),
     generation_attempts |-> att + 1, error |-> "none"]

\* The response built by the outer handler, agent.py 172-182.
FailureResponse(cause) ==
    [success |-> FALSE, template_id |-> "failed_generation",
     generated_template |-> EmptyText,
     validation_result |->
        ValidationResult(FALSE, <<Msg("generation_failed", 0, <<<<cause>>>>)>>, <<>>),
     retrieval_context |-> <<>>, generation_attempts |-> 0, error |-> cause]

\* ------------------------------------------------------ retrieval

Doc(i) == [content |-> i]

\* What VectorDBService.search_similar does in a run: it returns up to
\* MaxDocs matches, or raises (embedding failure, index-backend failure).
SearchOutcomes ==
    {[ok |-> TRUE, failure |-> "none", docs |-> [i \in 1..n |-> Doc(i)]] :
        n \in 0..MaxDocs} \cup
    {[ok |-> FALSE, failure |-> f, docs |-> <<>>] :
        f \in {"embedding_failure", "store_failure"}}

\* A retrieval that lets the search's exception through.
RetrieveSimilarTemplatesRaising(search) ==
    [raised |-> ~search.ok, results |-> search.docs]

\* RAGEngine.retrieve_similar_templates on an initialized engine: the
\* search's results, or [] when the search raises.
RetrieveSimilarTemplates(search) ==
    IF search.ok THEN [raised |-> FALSE, results |-> search.docs]
    ELSE [raised |-> FALSE, results |-> <<>>]

\* ------------------------------------ NucleiAgent.generate_template

\* validate_template cannot write its temporary file.
TempFileError ==
    [kind |-> "tempfile_error", stdout |-> EmptyText, stderr |-> EmptyText, rc |-> 0]

\* The validator outcomes a run may meet.
ValidatorOutcomes ==
    {Completed(EmptyText, EmptyText, 0),
     Completed(EmptyText, <<ErrMissingInfo>>, 1),
     NotFound, TimedOut, TempFileError}

\* NucleiRunner.validate_template: the result, or the exception of writing
\* the temporary file.
ValidateTemplate(proc) ==
    IF proc.kind = "tempfile_error"
    THEN [raised |-> TRUE, result |-> ValidationResult(FALSE, <<>>, <<>>)]
    ELSE [raised |-> FALSE, result |-> RunValidation(proc)]

\* One I/O step of the run, as observed.
Step(op, ok, att, prompt, content, result, reason) ==
    [op |-> op, ok |-> ok, attempt |-> att, prompt |-> prompt,
     content |-> content, result |-> result, reason |-> reason]

Observe(step) ==
    /\ prev_step' = last_step
    /\ last_step' = Some(step)

\* An outer handler that does not catch initialization errors.
OuterHandlerCatchesNotInit(cause) == cause # "init"

\* "except Exception" of the outer try catches every failure of the run.
OuterHandlerCatches(cause) == TRUE

\* The outer handler, agent.py 170-182.
ReturnFailure(cause) ==
    /\ pc' = "done"
    /\ response' = IF OuterHandlerCatches(cause)
                   THEN Some(FailureResponse(cause)) ELSE NoValue
    /\ escaped' = ~OuterHandlerCatches(cause)
    /\ failure_cause' = cause
    /\ attempt' = attempt

\* The end of one loop iteration: for attempt in range(max_retries).
NextIteration ==
    /\ IF attempt + 1 < max_retries
       THEN pc' = "generate" /\ attempt' = attempt + 1
       ELSE pc' = "post_loop" /\ attempt' = attempt
    /\ UNCHANGED <<response, escaped, failure_cause>>

\* break
Break ==
    /\ pc' = "post_loop"
    /\ UNCHANGED <<attempt, response, escaped, failure_cause>>

\* A last-attempt test that is off by one.
LastAttemptOffByOne(att, maxr) == att = maxr

\* attempt == max_retries - 1
LastAttempt(att, maxr) == att = maxr - 1

\* attempt < max_retries - 1
RefineAllowed(att, maxr) == att < maxr - 1

\* The inner handler, agent.py 140-143.
InnerExcept(cause) ==
    IF LastAttempt(attempt, max_retries) THEN ReturnFailure(cause) ELSE NextIteration

\* "not generated_template"
Falsy(template) == template = NoValue \/ template = Some(EmptyText)

Init ==
    /\ pc = "start"
    /\ rag_initialized \in BOOLEAN
    /\ max_retries \in 0..MaxRetriesBound
    /\ validation_required \in BOOLEAN
    /\ similar_templates = <<>>
    /\ attempt = -1
    /\ generated_template = NoValue
    /\ validation_result = NoValue
    /\ response = NoValue
    /\ escaped = FALSE
    /\ last_step = NoValue
    /\ prev_step = NoValue
    /\ retrieve_calls = 0
    /\ llm_calls = 0
    /\ validate_calls = 0
    /\ rejections = 0
    /\ unavailable_seen = FALSE
    /\ steps_after_unavailable = 0
    /\ accepted = NoValue
    /\ failure_cause = "none"
    /\ retrieve_outcome = "none"
    /\ ParseIdle
    /\ RunIdle
    /\ SearchIdle
    /\ StoreIdle
    /\ AuxIdle

CountAfterUnavailable ==
    steps_after_unavailable' =
        IF unavailable_seen THEN steps_after_unavailable + 1
        ELSE steps_after_unavailable

\* agent.py 98-101: initialize the RAG engine if needed.
StartRun ==
    /\ pc = "start"
    /\ IF rag_initialized
       THEN /\ pc' = "retrieve"
            /\ UNCHANGED <<rag_initialized, attempt, response, escaped,
                           failure_cause, last_step, prev_step>>
       ELSE \E init_ok \in BOOLEAN :
            /\ Observe(Step("initialize", init_ok, attempt, NoPrompt, NoValue,
                            NoValue, "none"))
            /\ rag_initialized' = init_ok
            /\ IF init_ok
               THEN /\ pc' = "retrieve"
                    /\ UNCHANGED <<attempt, response, escaped, failure_cause>>
               ELSE ReturnFailure("init")
    /\ UNCHANGED <<max_retries, validation_required, similar_templates,
                   generated_template, validation_result, retrieve_calls,
                   llm_calls, validate_calls, rejections, unavailable_seen,
                   steps_after_unavailable, accepted, retrieve_outcome>>
    /\ UNCHANGED <<parseVars, runVars, searchVars, storeVars, auxVars>>

\* agent.py 104-117: retrieve the context, read max_retries, enter the loop.
Retrieve ==
    /\ pc = "retrieve"
    /\ \E search \in SearchOutcomes :
        LET r == RetrieveSimilarTemplates(search)
        IN  /\ retrieve_calls' = retrieve_calls + 1
            /\ retrieve_outcome' = (IF search.ok THEN "ok" ELSE search.failure)
            /\ Observe(Step("retrieve", search.ok, attempt, NoPrompt, NoValue,
                            NoValue, search.failure))
            /\ IF r.raised
               THEN /\ similar_templates' = similar_templates
                    /\ ReturnFailure("retrieval")
               ELSE /\ similar_templates' = r.results
                    /\ IF 0 < max_retries
                       THEN pc' = "generate" /\ attempt' = 0
                       ELSE pc' = "post_loop" /\ attempt' = attempt
                    /\ UNCHANGED <<response, escaped, failure_cause>>
    /\ UNCHANGED <<rag_initialized, max_retries, validation_required,
                   generated_template, validation_result, llm_calls,
                   validate_calls, rejections, unavailable_seen,
                   steps_after_unavailable, accepted>>
    /\ UNCHANGED <<parseVars, runVars, searchVars, storeVars, auxVars>>

\* agent.py 119-122 and 136-138: _generate_template_content.
Generate ==
    /\ pc = "generate"
    /\ \E out \in LLMOutcomes :
        LET prompt  == GeneratePrompt(FormatRetrievalContext(similar_templates))
            content == ContentOf(out.text)
        IN  /\ llm_calls' = llm_calls + 1
            /\ CountAfterUnavailable
            /\ Observe(Step("generate", out.ok, attempt, prompt,
                            IF out.ok THEN Some(content) ELSE NoValue,
                            NoValue, out.reason))
            /\ IF out.ok
               THEN /\ generated_template' = Some(content)
                    /\ IF validation_required
                       THEN /\ pc' = "validate"
                            /\ UNCHANGED <<validation_result, attempt, response,
                                           escaped, failure_cause>>
                       ELSE /\ validation_result' =
                                   Some(ValidationResult(TRUE, <<>>, <<>>))
                            /\ Break
               ELSE /\ UNCHANGED <<generated_template, validation_result>>
                    /\ InnerExcept("llm")
    /\ UNCHANGED <<rag_initialized, max_retries, validation_required,
                   similar_templates, retrieve_calls, validate_calls, rejections,
                   unavailable_seen, accepted, retrieve_outcome>>
    /\ UNCHANGED <<parseVars, runVars, searchVars, storeVars, auxVars>>

\* agent.py 123-129: validate_template and the decision on its result.
Validate ==
    /\ pc = "validate"
    /\ \E proc \in ValidatorOutcomes :
        LET content == Get(generated_template)
            v       == ValidateTemplate(proc)
        IN  /\ validate_calls' = validate_calls + 1
            /\ CountAfterUnavailable
            /\ Observe(Step("validate", ~v.raised, attempt, NoPrompt, Some(content),
                            IF v.raised THEN NoValue ELSE Some(v.result),
                            proc.kind))
            /\ IF v.raised
               THEN /\ UNCHANGED <<validation_result, rejections,
                                   unavailable_seen, accepted>>
                    /\ InnerExcept("validator_io")
               ELSE /\ validation_result' = Some(v.result)
                    /\ rejections' = IF v.result.is_valid THEN rejections
                                      ELSE rejections + 1
                    /\ unavailable_seen' =
                           (unavailable_seen \/ v.result = BinaryNotFoundResult)
                    /\ IF v.result.is_valid
                       THEN /\ accepted' = Some([attempt |-> attempt + 1,
                                                  content |-> content,
                                                  result |-> v.result])
                            /\ Break
                       ELSE /\ accepted' = accepted
                            /\ IF RefineAllowed(attempt, max_retries)
                               THEN /\ pc' = "refine"
                                    /\ UNCHANGED <<attempt, response, escaped,
                                                   failure_cause>>
                               ELSE NextIteration
    /\ UNCHANGED <<rag_initialized, max_retries, validation_required,
                   similar_templates, generated_template, retrieve_calls,
                   llm_calls, retrieve_outcome>>
    /\ UNCHANGED <<parseVars, runVars, searchVars, storeVars, auxVars>>

\* agent.py 130-135: _refine_template, then the next iteration.
Refine ==
    /\ pc = "refine"
    /\ \E out \in LLMOutcomes :
        LET prompt  == RefinePrompt(Get(generated_template), Get(validation_result))
            content == ContentOf(out.text)
        IN  /\ llm_calls' = llm_calls + 1
            /\ CountAfterUnavailable
            /\ Observe(Step("refine", out.ok, attempt, prompt,
                            IF out.ok THEN Some(content) ELSE NoValue,
                            NoValue, out.reason))
            /\ IF out.ok
               THEN /\ generated_template' = Some(content)
                    /\ NextIteration
               ELSE /\ generated_template' = generated_template
                    /\ InnerExcept("llm")
    /\ UNCHANGED <<rag_initialized, max_retries, validation_required,
                   similar_templates, validation_result, retrieve_calls,
                   validate_calls, rejections, unavailable_seen, accepted,
                   retrieve_outcome>>
    /\ UNCHANGED <<parseVars, runVars, searchVars, storeVars, auxVars>>

\* agent.py 145-168: the check after the loop and the success response.
Finish ==
    /\ pc = "post_loop"
    /\ IF Falsy(generated_template)
       THEN ReturnFailure("no_template")
       ELSE LET content     == Get(generated_template)
                template_id == ExtractTemplateId(content)
            IN  IF template_id = NoValue \/ validation_result = NoValue
                THEN ReturnFailure("response_model")
                ELSE /\ pc' = "done"
                     /\ response' = Some(SuccessResponse(Get(template_id), content,
                                             Get(validation_result),
                                             similar_templates, attempt))
                     /\ UNCHANGED <<attempt, escaped, failure_cause>>
    /\ UNCHANGED <<rag_initialized, max_retries, validation_required,
                   similar_templates, generated_template, validation_result,
                   last_step, prev_step, retrieve_calls, llm_calls,
                   validate_calls, rejections, unavailable_seen,
                   steps_after_unavailable, accepted, retrieve_outcome>>
    /\ UNCHANGED <<parseVars, runVars, searchVars, storeVars, auxVars>>

Next == StartRun \/ Retrieve \/ Generate \/ Validate \/ Refine \/ Finish

Spec == Init /\ [][Next]_vars

\* ----------------------------------------------------------- claims

Last == Get(last_step)
Prev == Get(prev_step)
Resp == Get(response)

IsLLMStep(step) == step.op \in {"generate", "refine"}

\* The shape of a failure response.
FailureShaped(r) ==
    /\ ~r.success
    /\ r.template_id = "failed_generation"
    /\ r.generated_template = EmptyText
    /\ ~r.validation_result.is_valid
    /\ Len(r.validation_result.errors) >= 1

\* C1: when validation is required and the validator rejects the content on
\* every one of the max_retries attempts, the final result has success=false,
\* empty content, attempt count max_retries and an is_valid=false result
\* whose errors contain the last validator errors.
C1_ExhaustedRetriesFail ==
    (pc = "done" /\ validation_required /\ max_retries > 0
       /\ rejections = max_retries) =>
        /\ response # NoValue
        /\ ~Resp.success
        /\ Resp.generated_template = EmptyText
        /\ ~Resp.validation_result.is_valid
        /\ \A i \in 1..Len(Get(validation_result).errors) :
              \E j \in 1..Len(Resp.validation_result.errors) :
                 Resp.validation_result.errors[j] = Get(validation_result).errors[i]

\* C2: whenever a Refine step produces corrected content, the next step of
\* the run is the validator call on exactly that content.
C2_RefinedContentValidated ==
    (prev_step # NoValue /\ Prev.op = "refine" /\ Prev.ok) =>
        (Last.op = "validate" /\ Last.content = Prev.content)

\* C3: in one run the LLM calls of either kind, counted together, are at
\* most max_retries, and so are the validator calls.
C3_BoundedCycles ==
    /\ llm_calls <= max_retries
    /\ validate_calls <= max_retries

\* C4: after a validation returned the binary-not-found result no further
\* Generate, Refine or Validate step is performed, and the result is a
\* failure whose errors name the unavailable tool.
C4_StopsWhenUnavailable ==
    /\ steps_after_unavailable = 0
    /\ (pc = "done" /\ unavailable_seen) =>
          /\ response # NoValue
          /\ ~Resp.success
          /\ \E j \in 1..Len(Resp.validation_result.errors) :
                Resp.validation_result.errors[j].kind = "binary_not_found"

SearchFailures == {"embedding_failure", "store_failure"}

\* C6 as stated: no failure of the Retrieve step, store initialization
\* included, is ever the cause of a failed generation result, and a failed
\* search leaves an empty context.
C6_RetrieveFailureNeverFatal ==
    /\ failure_cause \notin {"init", "retrieval"}
    /\ (retrieve_outcome \in SearchFailures => similar_templates = <<>>)

\* C6 amended: a failure of the similarity search (embedding or index
\* backend) is downgraded to an empty context, the run goes on to Generate
\* and the failure is never the cause of a failed result; a store
\* initialization failure ends the run with a failure response before any
\* retrieval or generation.
C6_SearchFailureDowngraded ==
    /\ (retrieve_outcome \in SearchFailures =>
          /\ similar_templates = <<>>
          /\ failure_cause # "retrieval"
          /\ (max_retries > 0 => (pc = "generate" /\ llm_calls = 0) \/ llm_calls >= 1))
    /\ (failure_cause = "init" =>
          /\ pc = "done"
          /\ retrieve_calls = 0
          /\ llm_calls = 0
          /\ response # NoValue
          /\ FailureShaped(Resp))

\* A run whose search failed went on to call the LLM.
C6_Witness ==
    /\ retrieve_outcome \in SearchFailures
    /\ similar_templates = <<>>
    /\ llm_calls >= 1
    /\ pc = "done"
    /\ response # NoValue
    /\ Resp.success

\* C7: the steps of a run are strictly sequential: Retrieve happens exactly
\* once and before the first LLM call, every Validate is applied to the
\* content the completed Generate call before it produced, and a Refine
\* follows a Validate that returned an invalid result and embeds that
\* result's errors and warnings and the validated content.
C7_StrictlySequential ==
    /\ retrieve_calls <= 1
    /\ (pc \in {"start", "retrieve"} => llm_calls = 0 /\ validate_calls = 0)
    /\ (llm_calls > 0 \/ validate_calls > 0 => retrieve_calls = 1)
    /\ (last_step # NoValue /\ Last.op = "generate" /\ Last.attempt = 0 =>
          prev_step # NoValue /\ Prev.op = "retrieve")
    /\ (last_step # NoValue /\ Last.op = "validate" =>
          /\ prev_step # NoValue
          /\ Prev.op = "generate"
          /\ Prev.ok
          /\ Last.content = Prev.content)
    /\ (last_step # NoValue /\ Last.op = "refine" =>
          /\ prev_step # NoValue
          /\ Prev.op = "validate"
          /\ Prev.ok
          /\ ~Get(Prev.result).is_valid
          /\ Last.prompt.errors = Get(Prev.result).errors
          /\ Last.prompt.warnings = Get(Prev.result).warnings
          /\ Last.prompt.template = Prev.content)

\* A Refine followed the rejection of the second attempt.
C7_Witness ==
    /\ last_step # NoValue
    /\ Last.op = "refine"
    /\ Last.attempt = 1
    /\ Prev.op = "validate"
    /\ Get(Prev.result).errors # <<>>

C9_FailureLeadsToRefineWithNote ==
    /\ (prev_step # NoValue /\ IsLLMStep(Prev) /\ ~Prev.ok =>
          Last.op = "refine" /\ Last.prompt.note = "prior attempt timed out")
    /\ (last_step # NoValue /\ IsLLMStep(Last) /\ ~Last.ok
          /\ ~(Last.attempt < max_retries - 1) =>
          pc = "done" /\ response # NoValue /\ ~Resp.success)

\* C9 amended: after an LLM call failed with attempts remaining, the next
\* step is a fresh Generate of the next attempt with the original prompt
\* (no note, no prior content); with no attempts remaining the run ends in
\* a failure result.
C9_FailureLeadsToFreshGenerate ==
    /\ (prev_step # NoValue /\ IsLLMStep(Prev) /\ ~Prev.ok =>
          /\ Last.op = "generate"
          /\ Last.attempt = Prev.attempt + 1
          /\ Last.prompt = GeneratePrompt(FormatRetrievalContext(similar_templates)))
    /\ (last_step # NoValue /\ IsLLMStep(Last) /\ ~Last.ok =>
          IF Last.attempt < max_retries - 1
          THEN pc = "generate" /\ attempt = Last.attempt + 1
          ELSE /\ pc = "done"
               /\ failure_cause = "llm"
               /\ response # NoValue
               /\ FailureShaped(Resp))

\* A fresh Generate followed an LLM call that timed out.
C9_Witness ==
    /\ prev_step # NoValue
    /\ IsLLMStep(Prev)
    /\ ~Prev.ok
    /\ Prev.reason = "timeout"
    /\ Last.op = "generate"

\* ------------------------------- one NucleiRunner.validate_template call

\* The process behaviours a validation call may meet: the validator runs to
\* completion with some output and exit code, exceeds the timeout, is
\* missing, cannot be run for another reason, or the temporary file cannot
\* be written.
RawTexts(pool) ==
    {<<l>> : l \in pool} \cup {<<l, <<>>>> : l \in pool \ {<<>>}}

RunProcs ==
    {Completed(o, e, rc) : o \in RawTexts(StdoutPool), e \in RawTexts(StderrPool),
                           rc \in ExitCodes}
    \cup {TimedOut, NotFound, OsError, TempFileError}

TerminalStates == {"completed", "timeout", "notfound", "oserror"}

InitRun ==
    /\ AgentIdle
    /\ ParseIdle
    /\ SearchIdle
    /\ StoreIdle
    /\ AuxIdle
    /\ r_pc = "start"
    /\ r_proc \in RunProcs
    /\ r_child = "none"
    /\ r_terminals = {}
    /\ r_result = NoValue

\* nuclei_runner.py 29-31: the content is written to a NamedTemporaryFile;
\* a failure to write it leaves validate_template as an exception.
WriteTempFile ==
    /\ r_pc = "start"
    /\ r_pc' = IF ValidateTemplate(r_proc).raised THEN "raised" ELSE "spawn"
    /\ UNCHANGED <<r_proc, r_child, r_terminals, r_result>>
    /\ UNCHANGED <<agentVars, parseVars, searchVars, storeVars, auxVars>>

\* subprocess.run starts the child; a missing binary raises
\* FileNotFoundError, any other failure to start it another exception.
Spawn ==
    /\ r_pc = "spawn"
    /\ IF r_proc.kind \in {"notfound", "oserror"}
       THEN /\ r_pc' = r_proc.kind
            /\ r_terminals' = r_terminals \cup {r_proc.kind}
            /\ r_child' = r_child
       ELSE /\ r_pc' = "running"
            /\ r_child' = "running"
            /\ r_terminals' = r_terminals
    /\ UNCHANGED <<r_proc, r_result>>
    /\ UNCHANGED <<agentVars, parseVars, searchVars, storeVars, auxVars>>

\* The child exits within the timeout; subprocess.run collects its output.
Exit ==
    /\ r_pc = "running"
    /\ r_proc.kind = "completed"
    /\ r_child' = "exited"
    /\ r_pc' = "completed"
    /\ r_terminals' = r_terminals \cup {"completed"}
    /\ UNCHANGED <<r_proc, r_result>>
    /\ UNCHANGED <<agentVars, parseVars, searchVars, storeVars, auxVars>>

\* The timeout expires: subprocess.run kills the child and waits for it
\* before it raises TimeoutExpired.
Expire ==
    /\ r_pc = "running"
    /\ r_proc.kind = "timeout"
    /\ r_child' = "reaped"
    /\ r_pc' = "timeout"
    /\ r_terminals' = r_terminals \cup {"timeout"}
    /\ UNCHANGED <<r_proc, r_result>>
    /\ UNCHANGED <<agentVars, parseVars, searchVars, storeVars, auxVars>>

\* _run_validation builds the result and validate_template returns it.
Return ==
    /\ r_pc \in TerminalStates
    /\ r_result' = Some(RunValidation(r_proc))
    /\ r_pc' = "returned"
    /\ UNCHANGED <<r_proc, r_child, r_terminals>>
    /\ UNCHANGED <<agentVars, parseVars, searchVars, storeVars, auxVars>>

NextRun == WriteTempFile \/ Spawn \/ Exit \/ Expire \/ Return

SpecRun == InitRun /\ [][NextRun]_vars

\* The error messages of the call's result.
TimeoutDescribed(m) == m.kind = "stderr" /\ m.text = <<TimedOutLine>>

\* C11: when the validator process exceeds the timeout, it has been killed
\* and reaped before validate_template returns, and the result is
\* is_valid = False with exactly one error, which describes the timeout.
C11_TimeoutSingleError ==
    (r_pc = "returned" /\ r_terminals = {"timeout"}) =>
        LET r == Get(r_result)
        IN  /\ r_child = "reaped"
            /\ ~r.is_valid
            /\ Len(r.errors) = 1
            /\ TimeoutDescribed(r.errors[1])

\* The result of the call holds an error synthesized for a missing binary.
HasNotFoundError(r) ==
    \E i \in 1..Len(r.errors) : r.errors[i].kind = "binary_not_found"

Range(seq) == {seq[i] : i \in 1..Len(seq)}

HasAny(line, kws) == \E kw \in kws : HasKeyword(line, kw)

HasCouldNot(line) ==
    HasPhrase(line, "could", "not") \/ HasPhrase(line, "unable", "to")

\* C13 as stated: on a normal exit every non-empty line of stdout or stderr
\* with an error keyword (error, invalid, failed, fatal, could not, unable
\* to) is in errors, every other one with a warning keyword is in warnings,
\* and all remaining lines are discarded.
C13_UniformClassification ==
    p_pc = "parsed" =>
        LET r == Get(p_result)
        IN  \A line \in (Range(p_stdout) \cup Range(p_stderr)) \ {<<>>} :
                IF HasAny(line, {"error", "invalid", "failed", "fatal"})
                   \/ HasCouldNot(line)
                THEN LineMsg(line) \in Range(r.errors)
                ELSE IF HasAny(line, {"warning", "warn"})
                THEN LineMsg(line) \in Range(r.warnings)
                ELSE LineMsg(line) \notin Range(r.errors) \cup Range(r.warnings)

\* C13, amended: the two streams are classified by different rules.  A
\* non-empty stderr line is an error if it contains error, invalid, failed
\* or fatal; otherwise a warning if it contains warning or warn; otherwise
\* an error if it contains "could not" or "unable to".  A non-empty stdout
\* line is an error if it contains error or invalid and does not contain
\* both "loaded" and "template"; stdout never yields a warning.  Every other
\* line is discarded as a line (the generic errors of a nonzero exit quote
\* the whole streams).
C13_PerStreamClassification ==
    p_pc = "parsed" =>
        LET r == Get(p_result)
            errLines == {m.text[1] : m \in {x \in Range(r.errors) : x.kind = "line"}}
            warnLines == {m.text[1] : m \in Range(r.warnings)}
            stderrErrors ==
                {l \in Range(p_stderr) \ {<<>>} :
                    \/ HasAny(l, {"error", "invalid", "failed", "fatal"})
                    \/ (~HasAny(l, {"warning", "warn"}) /\ HasCouldNot(l))}
            stderrWarnings ==
                {l \in Range(p_stderr) \ {<<>>} :
                    /\ ~HasAny(l, {"error", "invalid", "failed", "fatal"})
                    /\ HasAny(l, {"warning", "warn"})}
            stdoutErrors ==
                {l \in Range(p_stdout) \ {<<>>} :
                    /\ HasAny(l, {"error", "invalid"})
                    /\ ~(HasKeyword(l, "loaded") /\ HasKeyword(l, "template"))}
        IN  /\ errLines = stderrErrors \cup stdoutErrors
            /\ warnLines = stderrWarnings
            /\ \A m \in Range(r.warnings) : m.kind = "line"

\* An output was parsed in which the streams are treated differently: a
\* stdout line with "failed" and a stdout warning are discarded, a stderr
\* warning that also says "could not" is a warning, and an error is kept.
C13_Witness ==
    /\ p_pc = "parsed"
    /\ p_stdout = <<OutFailed, OutWarn>>
    /\ p_stderr = <<WarnCouldNot, ErrMissingInfo>>
    /\ Get(p_result).errors = <<LineMsg(ErrMissingInfo)>>
    /\ Get(p_result).warnings = <<LineMsg(WarnCouldNot)>>

\* ----------------------------------------------- templates and chunks

\* Largest number of chunks in a collection explored.
MaxChunks == 2

\* A string whose characters matter is a sequence of one-character strings.
TagSqli      == <<"s", "q", "l", "i">>
TagLogin     == <<"l", "o", "g", "i", "n">>
TagXss       == <<"x", "s", "s">>
TagSQLiUpper == <<"S", "Q", "L", "i">>
TagS         == <<"S">>

\* str.lower() on one character and on a string of characters.
LowerChar(c) ==
    CASE c = "S" -> "s"
      [] c = "Q" -> "q"
      [] c = "L" -> "l"
      [] c = "X" -> "x"
      [] OTHER   -> c

LowerStr(str) == [i \in 1..Len(str) |-> LowerChar(str[i])]

\* info.tags of a template file: a YAML list of tags, or one string.
TagList(items) == [is_list |-> TRUE, items |-> items, text |-> <<>>]
TagText(text)  == [is_list |-> FALSE, items |-> <<>>, text |-> text]

\* ", ".join(tags)
RECURSIVE JoinTags(_)
JoinTags(tags) ==
    IF tags = <<>> THEN <<>>
    ELSE IF Len(tags) = 1 THEN tags[1]
    ELSE tags[1] \o <<",", " ">> \o JoinTags(Tail(tags))

\* A template file, as far as retrieval reads it.
Template(id, severity, tags) == [id |-> id, severity |-> severity, tags |-> tags]

\* VectorDBService.load_nuclei_template: the document of a template file.
\* The metadata value of "tags" is always a string.
LoadNucleiTemplate(template) ==
    [id |-> template.id,
     metadata |-> [template_id |-> template.id,
                   severity |-> template.severity,
                   tags |-> IF template.tags.is_list
                            THEN JoinTags(template.tags.items)
                            ELSE template.tags.text]]

\* A stored chunk of a document (the documents of the model have one
\* chunk), with the cosine distance of its embedding to the embedding of the
\* query, in tenths.
Chunk(document, dist) ==
    [id |-> document.id, metadata |-> document.metadata, dist |-> dist]

TemplateSqliLogin == Template("sqli-login", "high", TagList(<<TagSqli, TagLogin>>))
TemplateXss       == Template("xss-reflected", "High", TagText(TagXss))
TemplateXssLogin  == Template("xss-login", "critical", TagList(<<TagXss, TagLogin>>))
TemplateBanner    == Template("info-banner", "info", TagList(<<>>))
TemplateSqliBlind == Template("sqli-blind", "critical", TagList(<<TagSqli>>))

ChunkPool ==
    {Chunk(LoadNucleiTemplate(TemplateSqliLogin), 1),
     Chunk(LoadNucleiTemplate(TemplateXss), 3),
     Chunk(LoadNucleiTemplate(TemplateXssLogin), 4),
     Chunk(LoadNucleiTemplate(TemplateBanner), 4),
     Chunk(LoadNucleiTemplate(TemplateSqliBlind), 6)}

\* ------------------------------------- VectorDBService.search_similar

Min(a, b) == IF a <= b THEN a ELSE b

\* collection.query(n_results = n): the n nearest chunks in ascending
\* distance; chunks at equal distance come in either order.
NearestResults(chunks, n) ==
    LET k == Min(n, Cardinality(chunks))
    IN  {q \in [1..k -> chunks] :
            /\ \A i, j \in 1..k : i < j => q[i] # q[j] /\ q[i].dist <= q[j].dist
            /\ \A c \in chunks \ Range(q) : \A i \in 1..k : q[i].dist <= c.dist}

\* The similarity 1.0, in tenths.
One == 10

\* One entry of the result of search_similar.
Match(c) == [content |-> c.id, metadata |-> c.metadata, similarity |-> One - c.dist]

\* A filter that drops the matches exactly at the threshold.
SearchSimilarStrict(nearest, similarity_threshold) ==
    LET Keep(c) == One - c.dist > similarity_threshold
        kept == SelectSeq(nearest, Keep)
    IN  [i \in 1..Len(kept) |-> Match(kept[i])]

\* vector_db.py 238-249: the matches of the query result whose similarity
\* reaches the threshold, in the order of the query result.
SearchSimilar(nearest, similarity_threshold) ==
    LET Keep(c) == One - c.dist >= similarity_threshold
        kept == SelectSeq(nearest, Keep)
    IN  [i \in 1..Len(kept) |-> Match(kept[i])]

\* --------------------------------------------- RAGEngine query modes

\* config rag.max_retrieved_docs and rag.similarity_threshold (tenths).
DefaultMaxRetrievedDocs == 5
DefaultSimilarityThreshold == 7

\* similarity_threshold of get_templates_by_severity / _by_tags (tenths)
\* and their default max_results.
FilterThreshold == 5
DefaultFilterMaxResults == 10

\* Python's "value or default" on an optional number: None and 0 both give
\* the default.
OrDefault(value, default) ==
    IF value = NoValue \/ Get(value) = 0 THEN default ELSE Get(value)

\* A severity test that compares the strings as they are.
SeverityMatchesExact(meta_severity, severity) == meta_severity = severity

\* metadata severity .lower() == severity.lower()
SeverityMatches(meta_severity, severity) == Lower(meta_severity) = Lower(severity)

\* rag_engine.py 166-169
FilterBySeverity(results, severity) ==
    LET Keep(m) == SeverityMatches(m.metadata.severity, severity)
    IN  SelectSeq(results, Keep)

\* rag_engine.py 192-193: template_tags is the metadata string, so the list
\* comprehension yields its characters, and a requested tag matches when
\* its lower-cased form is one of these characters.
TagMatches(template_tags, tags) ==
    \E i \in 1..Len(tags) : \E j \in 1..Len(template_tags) :
        LowerStr(tags[i]) = <<LowerChar(template_tags[j])>>

\* rag_engine.py 190-194
FilterByTags(results, tags) ==
    LET Keep(m) == TagMatches(m.metadata.tags, tags)
    IN  SelectSeq(results, Keep)

\* ------------------------------------ searches over a fixed collection

\* One observed call: the arguments as passed (req_n, req_t), as used (n,
\* t), what collection.query returned (nearest), what search_similar
\* returned (underlying), whether search_similar raised, what the call
\* returned, and the chunks of the collection when it was made.
Call(op, req_n, req_t, n, t, level, tags, nearest, underlying, raised, results, before) ==
    [op |-> op, req_n |-> req_n, req_t |-> req_t, n |-> n, t |-> t,
     level |-> level, tags |-> tags, nearest |-> nearest,
     underlying |-> underlying, raised |-> raised, results |-> results,
     before |-> before]

Queries ==
    {[kind |-> "text", level |-> "", tags |-> <<>>]}
    \cup {[kind |-> "severity", level |-> l, tags |-> <<>>] :
            l \in {"high", "HIGH", "critical"}}
    \cup {[kind |-> "tags", level |-> "", tags |-> t] :
            t \in {<<TagSQLiUpper>>, <<TagXss, TagLogin>>, <<TagS>>}}

MaxResultsPool == {1, 2, DefaultFilterMaxResults}
ThresholdPool == {0, 5, 7, 10}

\* A search of the backend works, or raises.
BackendOutcomes == {"none", "store_failure"}

\* What search_similar gives a caller: matches, or an exception.
SearchOutcome(failure, nearest, similarity_threshold) ==
    [ok |-> failure = "none", failure |-> failure,
     docs |-> IF failure = "none" THEN SearchSimilar(nearest, similarity_threshold)
              ELSE <<>>]

InitSearch ==
    /\ AgentIdle
    /\ ParseIdle
    /\ RunIdle
    /\ StoreIdle
    /\ AuxIdle
    /\ s_pc = "ready"
    /\ s_chunks \in {S \in SUBSET ChunkPool : Cardinality(S) <= MaxChunks}
    /\ s_query \in Queries
    /\ s_last = NoValue
    /\ s_prev = NoValue

\* Two calls are observed over the collection, so that the results of two
\* calls on the same contents can be compared.
CanCall == s_pc \in {"ready", "called"}

Record(call) ==
    /\ s_prev' = s_last
    /\ s_last' = Some(call)
    /\ s_pc' = IF s_pc = "ready" THEN "called" ELSE "compared"
    /\ UNCHANGED <<s_chunks, s_query>>
    /\ UNCHANGED <<agentVars, parseVars, runVars, storeVars, auxVars>>

\* VectorDBService.search_similar(query, max_results, similarity_threshold)
SearchSimilarCall ==
    /\ CanCall
    /\ s_query.kind = "text"
    /\ \E n \in MaxResultsPool, t \in ThresholdPool, failure \in BackendOutcomes :
       \E nearest \in NearestResults(s_chunks, n) :
            LET out == SearchOutcome(failure, nearest, t)
            IN  Record(Call("search_similar", Some(n), Some(t), n, t, "", <<>>,
                            nearest, out.docs, ~out.ok, out.docs, s_chunks))

\* RAGEngine.retrieve_similar_templates(query, max_results, similarity_threshold)
RetrieveCall ==
    /\ CanCall
    /\ s_query.kind = "text"
    /\ \E req_n \in {NoValue, Some(1), Some(2)},
          req_t \in {NoValue} \cup {Some(t) : t \in ThresholdPool},
          failure \in BackendOutcomes :
        LET n == OrDefault(req_n, DefaultMaxRetrievedDocs)
            t == OrDefault(req_t, DefaultSimilarityThreshold)
        IN  \E nearest \in NearestResults(s_chunks, n) :
                LET out == SearchOutcome(failure, nearest, t)
                IN  Record(Call("retrieve", req_n, req_t, n, t, "", <<>>,
                                nearest, out.docs, ~out.ok,
                                RetrieveSimilarTemplates(out).results, s_chunks))

\* RAGEngine.get_templates_by_severity(severity, max_results)
BySeverityCall ==
    /\ CanCall
    /\ s_query.kind = "severity"
    /\ \E n \in MaxResultsPool, failure \in BackendOutcomes :
       \E nearest \in NearestResults(s_chunks, n) :
            LET out == SearchOutcome(failure, nearest, FilterThreshold)
            IN  Record(Call("by_severity", Some(n), NoValue, n, FilterThreshold,
                            s_query.level, <<>>, nearest, out.docs, ~out.ok,
                            IF out.ok THEN FilterBySeverity(out.docs, s_query.level)
                            ELSE <<>>,
                            s_chunks))

\* RAGEngine.get_templates_by_tags(tags, max_results)
ByTagsCall ==
    /\ CanCall
    /\ s_query.kind = "tags"
    /\ \E n \in MaxResultsPool, failure \in BackendOutcomes :
       \E nearest \in NearestResults(s_chunks, n) :
            LET out == SearchOutcome(failure, nearest, FilterThreshold)
            IN  Record(Call("by_tags", Some(n), NoValue, n, FilterThreshold,
                            "", s_query.tags, nearest, out.docs, ~out.ok,
                            IF out.ok THEN FilterByTags(out.docs, s_query.tags)
                            ELSE <<>>,
                            s_chunks))

NextSearch == SearchSimilarCall \/ RetrieveCall \/ BySeverityCall \/ ByTagsCall

SpecSearch == InitSearch /\ [][NextSearch]_vars

LastCall == Get(s_last)
PrevCall == Get(s_prev)

\* The chunk ids of a sequence of matches.
Ids(matches) == {m.content : m \in Range(matches)}

\* C14: search_similar(query, max_results, threshold) returns exactly those
\* of the max_results nearest chunks whose similarity 1 - distance is at
\* least the threshold, in descending similarity order, hence at most
\* max_results matches and none on an empty collection, and it leaves the
\* chunks of the collection unchanged.
C14_SearchSimilarExact ==
    (s_last # NoValue /\ LastCall.op = "search_similar" /\ ~LastCall.raised) =>
        LET c == LastCall
            near == Range(c.nearest)
        IN  /\ near \subseteq s_chunks
            /\ Len(c.nearest) = Min(c.n, Cardinality(s_chunks))
            /\ Cardinality(near) = Len(c.nearest)
            /\ \A x \in near : \A y \in s_chunks \ near : x.dist <= y.dist
            /\ Ids(c.results) = {x.id : x \in {y \in near : One - y.dist >= c.t}}
            /\ Cardinality(Ids(c.results)) = Len(c.results)
            /\ \A m \in Range(c.results) :
                  \E x \in near : x.id = m.content /\ m.similarity = One - x.dist
                                  /\ m.metadata = x.metadata
            /\ \A i, j \in 1..Len(c.results) :
                  i < j => c.results[i].similarity >= c.results[j].similarity
            /\ Len(c.results) <= c.n
            /\ (s_chunks = {} => c.results = <<>>)
            /\ s_chunks = c.before

\* A search with threshold 0.7 over two chunks kept the chunk of similarity
\* exactly 0.7 and dropped the chunk of similarity 0.4.
C14_Witness ==
    /\ s_last # NoValue
    /\ LastCall.op = "search_similar"
    /\ ~LastCall.raised
    /\ LastCall.t = 7
    /\ Len(LastCall.nearest) = 2
    /\ Len(LastCall.results) = 1
    /\ LastCall.results[1].similarity = 7

\* C15: for a fixed query, fixed max_results and fixed collection contents,
\* retrieve_similar_templates called with threshold t2 never returns more
\* results than with threshold t1, for all t1 <= t2 in [0,1], t1 = 0 included.
C15_ThresholdMonotone ==
    s_pc = "compared" =>
        \A pair \in {<<PrevCall, LastCall>>, <<LastCall, PrevCall>>} :
            LET a == pair[1]
                b == pair[2]
            IN  (/\ a.op = "retrieve" /\ b.op = "retrieve"
                 /\ ~a.raised /\ ~b.raised
                 /\ a.req_n = b.req_n
                 /\ a.req_t # NoValue /\ b.req_t # NoValue
                 /\ Get(a.req_t) <= Get(b.req_t))
                => Len(b.results) <= Len(a.results)

\* C16: get_templates_by_severity(level, max_results) returns exactly the
\* matches of its underlying similarity search whose metadata severity
\* equals level case-insensitively: every returned match has that severity,
\* no other match is returned (a collection of 'high' documents yields []
\* for 'critical'), and at most max_results matches are returned.
C16_BySeverityExact ==
    (s_last # NoValue /\ LastCall.op = "by_severity") =>
        LET c == LastCall
            wanted == {m \in Range(c.underlying) :
                          Lower(m.metadata.severity) = Lower(c.level)}
        IN  /\ Range(c.results) = wanted
            /\ Len(c.results) = Cardinality(wanted)
            /\ \A m \in Range(c.results) : Lower(m.metadata.severity) = Lower(c.level)
            /\ Len(c.results) <= c.n
            /\ ((\A x \in s_chunks : Lower(x.metadata.severity) = "high")
                /\ Lower(c.level) = "critical") => c.results = <<>>

\* A by-severity call for 'HIGH' whose search surfaced a 'high' and a
\* 'critical' chunk returned the 'high' one only.
C16_Witness ==
    /\ s_last # NoValue
    /\ LastCall.op = "by_severity"
    /\ LastCall.level = "HIGH"
    /\ Len(LastCall.underlying) = 2
    /\ Len(LastCall.results) = 1
    /\ LastCall.results[1].metadata.severity = "high"
    /\ \E m \in Range(LastCall.underlying) : m.metadata.severity = "critical"

\* The tags a metadata string denotes: its parts between commas, without
\* blanks.
RECURSIVE SplitLoop(_, _, _)
SplitLoop(str, cur, acc) ==
    IF str = <<>> THEN (IF cur = <<>> THEN acc ELSE acc \cup {cur})
    ELSE IF Head(str) = "," THEN SplitLoop(Tail(str), <<>>, acc \cup {cur})
    ELSE IF Head(str) = " " THEN SplitLoop(Tail(str), cur, acc)
    ELSE SplitLoop(Tail(str), Append(cur, Head(str)), acc)

SplitTags(str) == SplitLoop(str, <<>>, {})

\* C17: get_templates_by_tags(tags, max_results) keeps exactly those matches
\* of its underlying similarity search whose metadata tags intersect the
\* requested tags case-insensitively; a surfaced chunk of a template that
\* declares [sqli, login] is returned for the requested tag 'SQLi'.
C17_ByTagsIntersect ==
    (s_last # NoValue /\ LastCall.op = "by_tags" /\ ~LastCall.raised) =>
        LET c == LastCall
            requested == {LowerStr(c.tags[i]) : i \in 1..Len(c.tags)}
            wanted == {m \in Range(c.underlying) :
                          SplitTags(LowerStr(m.metadata.tags)) \cap requested # {}}
        IN  Range(c.results) = wanted

\* ------------------------------------------ the ChromaDB collection

\* Largest number of creations of the collection explored.
MaxGen == 3

\* Chunk ids that ingestion may add.
ChunkIds == {"c1", "c2"}

\* client.get_collection(name): a handle, or an exception when the
\* collection does not exist.
GetCollection(d) ==
    [raised |-> ~d.exists, handle |-> IF d.exists THEN Some(d.gen) ELSE NoValue]

\* client.create_collection(name, metadata={"hnsw:space": "cosine"}): a
\* new, empty collection, or an exception when the name is taken.
CreateCollection(d) ==
    IF d.exists THEN [raised |-> TRUE, db |-> d, handle |-> NoValue]
    ELSE [raised |-> FALSE, db |-> Db(TRUE, d.gen + 1, {}),
          handle |-> Some(d.gen + 1)]

\* client.delete_collection(name)
DeleteCollection(d) ==
    IF d.exists THEN [raised |-> FALSE, db |-> Db(FALSE, d.gen, {})]
    ELSE [raised |-> TRUE, db |-> d]

\* The handle refers to the collection that exists now.
Live(d, coll) == coll # NoValue /\ d.exists /\ Get(coll) = d.gen

\* ------------------------------------------------- VectorDBService

\* The outcome of a store operation: "ok" or the kind of failure, the
\* collection and the handle after it, and the count it reports.
Out(outcome, d, coll, count) ==
    [outcome |-> outcome, db |-> d, collection |-> coll, count |-> count]

\* VectorDBService.initialize / _initialize_chromadb; the client cannot be
\* built when the backend is down.
StoreInitialize(d, coll, backend_ok) ==
    IF ~backend_ok THEN Out("backend_error", d, coll, 0)
    ELSE LET got == GetCollection(d)
         IN  IF ~got.raised THEN Out("ok", d, got.handle, 0)
             ELSE LET made == CreateCollection(d)
                  IN  IF made.raised THEN Out("already_exists", d, coll, 0)
                      ELSE Out("ok", made.db, made.handle, 0)

\* A delete_collection that keeps the handle.
StoreDeleteKeepsHandle(d, coll) ==
    IF coll = NoValue THEN Out("ok", d, coll, 0)
    ELSE LET del == DeleteCollection(d)
         IN  IF del.raised THEN Out("backend_error", d, coll, 0)
             ELSE Out("ok", del.db, coll, 0)

\* VectorDBService.delete_collection
StoreDelete(d, coll) ==
    IF coll = NoValue THEN Out("ok", d, coll, 0)
    ELSE LET del == DeleteCollection(d)
         IN  IF del.raised THEN Out("backend_error", d, coll, 0)
             ELSE Out("ok", del.db, NoValue, 0)

\* VectorDBService.add_documents, for documents whose chunks have the ids.
StoreAdd(d, coll, ids) ==
    IF coll = NoValue THEN Out("not_initialized", d, coll, 0)
    ELSE IF ids = {} THEN Out("ok", d, coll, 0)
    ELSE IF ~Live(d, coll) THEN Out("backend_error", d, coll, 0)
    ELSE Out("ok", Db(TRUE, d.gen, d.chunks \cup ids), coll, Cardinality(ids))

\* VectorDBService.search_similar, with a query and a threshold that every
\* chunk matches: the count is the number of matches.
StoreSearch(d, coll) ==
    IF coll = NoValue THEN Out("not_initialized", d, coll, 0)
    ELSE IF ~Live(d, coll) THEN Out("backend_error", d, coll, 0)
    ELSE Out("ok", d, coll, Cardinality(d.chunks))

\* VectorDBService.get_collection_stats: {"error": ...} without a
\* collection, else the number of chunks.
StoreStats(d, coll) ==
    IF coll = NoValue THEN Out("not_initialized", d, coll, 0)
    ELSE IF ~Live(d, coll) THEN Out("backend_error", d, coll, 0)
    ELSE Out("ok", d, coll, Cardinality(d.chunks))

\* The name under which every store opens the collection
\* (config collection_name).
CollectionName == "nuclei_templates"

\* A dict returned by get_collection_stats, clear_collection or
\* update_rag_data: its "status", its "collection_name", whether it has the
\* key "error", and its "steps" (empty when it has none).
Dict(status, collection_name, error) ==
    [status |-> status, collection_name |-> collection_name, error |-> error,
     steps |-> <<>>]

\* The operation returned no dict.
NoDict == Dict(NoValue, NoValue, FALSE)

\* The dict of get_collection_stats: total_documents and collection_name
\* of the attached collection, or {"error": ...}.
StatsDict(r) ==
    IF r.outcome = "ok" THEN Dict(NoValue, Some(CollectionName), FALSE)
    ELSE IF r.outcome = "not_initialized" THEN Dict(NoValue, NoValue, TRUE)
    ELSE NoDict

\* The outcome of clear_collection: as Out, with the dict it returns.
ClearOut(outcome, d, coll, result) ==
    [outcome |-> outcome, db |-> d, collection |-> coll, count |-> 0,
     result |-> result]

\* clear_collection's dict after an exception: status and error only.
ClearFailed == Dict(Some("failed"), NoValue, TRUE)

\* A clear_collection that deletes and creates the collection but keeps the
\* handle it had.
StoreClearKeepsHandle(d, coll, backend_ok, delete_ok, create_ok) ==
    LET init == IF coll = NoValue THEN StoreInitialize(d, coll, backend_ok)
                ELSE Out("ok", d, coll, 0)
    IN  IF init.outcome # "ok"
        THEN ClearOut(init.outcome, init.db, init.collection, ClearFailed)
        ELSE LET del == DeleteCollection(init.db)
             IN  IF ~delete_ok \/ del.raised
                 THEN ClearOut("backend_error", init.db, init.collection,
                               ClearFailed)
                 ELSE LET made == CreateCollection(del.db)
                      IN  IF ~create_ok \/ made.raised
                          THEN ClearOut("backend_error", del.db, init.collection,
                                        ClearFailed)
                          ELSE ClearOut("ok", made.db, init.collection,
                                        Dict(Some("success"),
                                             Some(CollectionName), FALSE))

\* VectorDBService.clear_collection: initialize when no collection is
\* attached, delete the collection by its name, create it again; every
\* exception is turned into the failed dict.  The backend may fail at the
\* deletion (delete_ok) and at the creation (create_ok).
StoreClear(d, coll, backend_ok, delete_ok, create_ok) ==
    LET init == IF coll = NoValue THEN StoreInitialize(d, coll, backend_ok)
                ELSE Out("ok", d, coll, 0)
    IN  IF init.outcome # "ok"
        THEN ClearOut(init.outcome, init.db, init.collection, ClearFailed)
        ELSE LET del == DeleteCollection(init.db)
             IN  IF ~delete_ok \/ del.raised
                 THEN ClearOut("backend_error", init.db, init.collection,
                               ClearFailed)
                 ELSE LET made == CreateCollection(del.db)
                      IN  IF ~create_ok \/ made.raised
                          THEN ClearOut("backend_error", del.db, init.collection,
                                        ClearFailed)
                          ELSE ClearOut("ok", made.db, made.handle,
                                        Dict(Some("success"),
                                             Some(CollectionName), FALSE))

\* ------------------------------------------ update_rag_data

\* The outcome of an operation on the directory rag_data: its status, the
\* directory of templates after it, and the number of files it reports.
DirOut(status, dir, files) == [status |-> status, dir |-> dir, files |-> files]

\* The number of template files in the directory.
FilesIn(dir) == IF dir = NoValue THEN 0 ELSE Cardinality(Get(dir))

\* clear_rag_data_directory: rmtree of the directory when it exists;
\* an exception of rmtree gives the failed dict.
ClearRagDataDirectory(dir, rmtree_ok) ==
    IF dir = NoValue THEN DirOut("success", NoValue, 0)
    ELSE IF rmtree_ok THEN DirOut("success", NoValue, FilesIn(dir))
    ELSE DirOut("failed", dir, 0)

\* How git may end: "ok", "failed" (return code not 0) or "timeout".
GitOutcomes == {"ok", "failed", "timeout"}

\* download_latest_templates: git pull in an existing directory, with a
\* fresh clone after a failing pull, else git clone; latest is what the
\* repository holds.  A pull that times out leaves the directory as it is, a
\* failing clone leaves none.
DownloadLatestTemplates(dir, git, latest) ==
    CASE git = "ok" -> DirOut("success", Some(latest), Cardinality(latest))
      [] git = "timeout" -> DirOut("failed", dir, 0)
      [] OTHER -> DirOut("failed", NoValue, 0)

\* bulk_load_templates of an existing directory: add_documents of the
\* documents of its files, 0 when there is none.
BulkLoadTemplates(d, coll, dir) ==
    IF Get(dir) = {} THEN Out("ok", d, coll, 0)
    ELSE StoreAdd(d, coll, Get(dir))

\* The dict of update_rag_data with its status and its steps.
UpdateDict(status, steps, error) ==
    [Dict(Some(status), NoValue, error) EXCEPT !.steps = steps]

\* The outcome of update_rag_data: as ClearOut, with the directory after
\* it, templates_loaded as count, and the chunk ids it loaded.
UpdateOut(d, coll, dir, count, loaded, result) ==
    [outcome |-> IF result.status = Some("success") THEN "ok"
                 ELSE Get(result.status),
     db |-> d, collection |-> coll, dir |-> dir, count |-> count,
     loaded |-> loaded, result |-> result]

\* update_rag_data: step 1 clears the directory and the collection, and
\* only notes a failure in the steps; step 2 downloads, a failure giving
\* "partial_failure"; step 3 loads the directory if it exists, else the
\* status is "failed"; no template loaded gives "partial_failure".  An
\* exception of add_documents is caught by the outer handler, whose dict has
\* status "failed", templates_loaded 0 and no steps.
UpdateRagData(d, coll, dir, rmtree_ok, backend_ok, delete_ok, create_ok, git, latest) ==
    LET clear_dir == ClearRagDataDirectory(dir, rmtree_ok)
        clear_collection == StoreClear(d, coll, backend_ok, delete_ok, create_ok)
        step1 == <<IF clear_dir.status = "success"
                   THEN "Cleared RAG data directory"
                   ELSE "Failed to clear RAG data directory",
                   IF clear_collection.result.status # Some("success")
                   THEN "Failed to clear collection"
                   ELSE "Cleared vector database collection">>
        download == DownloadLatestTemplates(clear_dir.dir, git, latest)
        status2 == IF download.status = "success" THEN "success"
                   ELSE "partial_failure"
        step2 == IF download.status = "success" THEN "Downloaded"
                 ELSE "Failed to download templates"
        d1 == clear_collection.db
        coll1 == clear_collection.collection
    IN  IF download.dir = NoValue
        THEN UpdateOut(d1, coll1, download.dir, 0, {},
                       UpdateDict("failed",
                                  step1 \o <<step2,
                                    "Templates directory not found after download">>,
                                  FALSE))
        ELSE LET load == BulkLoadTemplates(d1, coll1, download.dir)
             IN  IF load.outcome # "ok"
                 THEN UpdateOut(load.db, load.collection, download.dir, 0, {},
                                UpdateDict("failed", <<>>, TRUE))
                 ELSE LET status3 == IF load.count = 0 THEN "partial_failure"
                                     ELSE status2
                          step3 == <<"Loaded">> \o
                                   (IF load.count = 0
                                    THEN <<"Warning: No templates were loaded">>
                                    ELSE <<>>)
                      IN  UpdateOut(load.db, load.collection, download.dir,
                                    load.count,
                                    IF load.count = 0 THEN {}
                                    ELSE Get(download.dir),
                                    UpdateDict(
                                      IF status3 = "success" /\ load.count > 0
                                      THEN "success"
                                      ELSE IF status3 = "partial_failure"
                                      THEN "partial_failure"
                                      ELSE "failed",
                                      step1 \o <<step2>> \o step3, FALSE))

\* ------------------------------------------------------- RAGEngine

\* The outcome of an engine operation: as Out, with how the caller sees it
\* ("value", "raised", "empty" for [], "error_signal" for {"error": ...}),
\* the flag initialized and the number of store initializations made by
\* "if not self.initialized: await self.initialize()".
EngineOut(outcome, exposed, d, coll, inited, count, inits) ==
    [outcome |-> outcome, exposed |-> exposed, db |-> d, collection |-> coll,
     initialized |-> inited, count |-> count, inits |-> inits]

\* RAGEngine.initialize
EngineInitialize(d, coll, inited, backend_ok) ==
    IF inited THEN EngineOut("ok", "value", d, coll, TRUE, 0, 0)
    ELSE LET r == StoreInitialize(d, coll, backend_ok)
         IN  IF r.outcome = "ok"
             THEN EngineOut("ok", "value", r.db, r.collection, TRUE, 0, 1)
             ELSE EngineOut(r.outcome, "raised", d, coll, FALSE, 0, 1)

\* retrieve_similar_templates / get_templates_by_severity / _by_tags:
\* initialize if the flag is unset, then search; a failing search gives [].
EngineSearch(d, coll, inited, backend_ok) ==
    LET i == EngineInitialize(d, coll, inited, backend_ok)
    IN  IF i.outcome # "ok" THEN i
        ELSE LET r == StoreSearch(i.db, i.collection)
             IN  IF r.outcome = "ok"
                 THEN EngineOut("ok", "value", r.db, r.collection, TRUE, r.count,
                                i.inits)
                 ELSE EngineOut(r.outcome, "empty", i.db, i.collection, TRUE, 0,
                                i.inits)

\* RAGEngine.get_collection_stats
EngineStats(d, coll, inited, backend_ok) ==
    LET i == EngineInitialize(d, coll, inited, backend_ok)
    IN  IF i.outcome # "ok" THEN i
        ELSE LET r == StoreStats(i.db, i.collection)
             IN  CASE r.outcome = "ok" ->
                        EngineOut("ok", "value", r.db, r.collection, TRUE, r.count,
                                  i.inits)
                   [] r.outcome = "not_initialized" ->
                        EngineOut(r.outcome, "error_signal", i.db, i.collection,
                                  TRUE, 0, i.inits)
                   [] OTHER ->
                        EngineOut(r.outcome, "raised", i.db, i.collection, TRUE, 0,
                                  i.inits)

\* A reload_templates that does not delete the collection.
EngineReloadNoDelete(d, coll, inited, backend_ok, again_ok, ids) ==
    LET i == EngineInitialize(d, coll, inited, backend_ok)
    IN  IF i.outcome # "ok" THEN i
        ELSE LET re == StoreInitialize(i.db, i.collection, again_ok)
             IN  IF re.outcome # "ok"
                 THEN EngineOut(re.outcome, "raised", re.db, re.collection,
                                TRUE, 0, i.inits)
                 ELSE LET add == StoreAdd(re.db, re.collection, ids)
                      IN  EngineOut(add.outcome,
                                    IF add.outcome = "ok" THEN "value"
                                    ELSE "raised",
                                    add.db, add.collection, TRUE,
                                    add.count, i.inits)

\* RAGEngine.reload_templates: initialize if the flag is unset, delete the
\* collection, initialize the store again, bulk-load the directory.
EngineReload(d, coll, inited, backend_ok, again_ok, ids) ==
    LET i == EngineInitialize(d, coll, inited, backend_ok)
    IN  IF i.outcome # "ok" THEN i
        ELSE LET del == StoreDelete(i.db, i.collection)
             IN  IF del.outcome # "ok"
                 THEN EngineOut(del.outcome, "raised", del.db, del.collection,
                                TRUE, 0, i.inits)
                 ELSE LET re == StoreInitialize(del.db, del.collection, again_ok)
                      IN  IF re.outcome # "ok"
                          THEN EngineOut(re.outcome, "raised", re.db, re.collection,
                                         TRUE, 0, i.inits)
                          ELSE LET add == StoreAdd(re.db, re.collection, ids)
                               IN  EngineOut(add.outcome,
                                             IF add.outcome = "ok" THEN "value"
                                             ELSE "raised",
                                             add.db, add.collection, TRUE,
                                             add.count, i.inits)

\* ------------------------------- one process using its store and engine

\* One completed operation of a client, as observed: whether the store had
\* no collection attached when it began, whether that was since a delete,
\* whether the backend was reachable, the collection before it, the chunk
\* ids of the documents it was given and the dict it returned.
OpRecord(op, level, unattached, after_delete, backend_ok, outcome, exposed, count, inits, before, requested, result) ==
    [op |-> op, level |-> level, unattached |-> unattached,
     after_delete |-> after_delete, backend_ok |-> backend_ok,
     outcome |-> outcome, exposed |-> exposed, count |-> count, inits |-> inits,
     before |-> before, requested |-> requested, result |-> result]

\* How a caller of the store sees an outcome; clear_collection returns a
\* dict for every exception it catches.
StoreExposed(op, outcome) ==
    IF outcome = "ok" \/ op \in {"clear", "update"} THEN "value"
    ELSE IF op = "stats" /\ outcome = "not_initialized" THEN "error_signal"
    ELSE "raised"

\* The operations that add nothing to and drop nothing from a collection
\* they find attached.
ReadingOps == {"initialize", "search", "by_severity", "by_tags", "stats"}

\* The state after an operation of client c.
Apply(c, rec, d, coll, inited, deleted, dir) ==
    /\ d.gen <= MaxGen
    /\ db' = d
    /\ templates_dir' = dir
    /\ collection' = [collection EXCEPT ![c] = coll]
    /\ initialized' = [initialized EXCEPT ![c] = inited]
    /\ c_last' = [c_last EXCEPT ![c] = Some(rec)]
    /\ since_delete' = [since_delete EXCEPT
                           ![c] = coll = NoValue /\ (deleted \/ since_delete[c])]
    /\ creations' = creations + (d.gen - db.gen)
    /\ since_clear' = [since_clear EXCEPT
                          ![c] = IF rec.op = "clear" /\ rec.outcome = "ok"
                                 THEN Some(rec.result)
                                 ELSE IF rec.op \in ReadingOps THEN @
                                 ELSE NoValue]
    /\ UNCHANGED c_pc
    /\ UNCHANGED <<agentVars, parseVars, runVars, searchVars, auxVars>>

\* A store operation of client c with outcome r.
ApplyStore(c, op, backend_ok, r, deleted, requested, result) ==
    Apply(c, OpRecord(op, "store", collection[c] = NoValue, since_delete[c],
                      backend_ok, r.outcome, StoreExposed(op, r.outcome), r.count,
                      IF op = "initialize" THEN 1 ELSE 0, db, requested, result),
          r.db, r.collection, initialized[c], deleted, templates_dir)

\* An engine operation of client c with outcome r.
ApplyEngine(c, op, backend_ok, r, deleted, requested) ==
    Apply(c, OpRecord(op, "engine", collection[c] = NoValue, since_delete[c],
                      backend_ok, r.outcome, r.exposed, r.count, r.inits, db,
                      requested, NoDict),
          r.db, r.collection, r.initialized, deleted, templates_dir)

InitStore ==
    /\ AgentIdle
    /\ ParseIdle
    /\ RunIdle
    /\ SearchIdle
    /\ AuxIdle
    /\ db \in {NoCollection, Db(TRUE, 1, {"c1"})}
    /\ collection = [c \in Clients |-> NoValue]
    /\ initialized = [c \in Clients |-> FALSE]
    /\ c_pc = [c \in Clients |-> "idle"]
    /\ c_last = [c \in Clients |-> NoValue]
    /\ since_delete = [c \in Clients |-> FALSE]
    /\ creations = 0
    /\ since_clear = [c \in Clients |-> NoValue]
    /\ templates_dir = NoValue

StoreInitializeOp(c) ==
    /\ c_pc[c] = "idle"
    /\ \E backend_ok \in BOOLEAN :
        ApplyStore(c, "initialize", backend_ok,
                   StoreInitialize(db, collection[c], backend_ok), FALSE, {},
                   NoDict)

StoreAddOp(c) ==
    /\ c_pc[c] = "idle"
    /\ \E ids \in SUBSET ChunkIds :
        ApplyStore(c, "add", TRUE, StoreAdd(db, collection[c], ids), FALSE, ids,
                   NoDict)

StoreSearchOp(c) ==
    /\ c_pc[c] = "idle"
    /\ ApplyStore(c, "search", TRUE, StoreSearch(db, collection[c]), FALSE, {},
                  NoDict)

StoreStatsOp(c) ==
    /\ c_pc[c] = "idle"
    /\ LET r == StoreStats(db, collection[c])
       IN  ApplyStore(c, "stats", TRUE, r, FALSE, {}, StatsDict(r))

StoreDeleteOp(c) ==
    /\ c_pc[c] = "idle"
    /\ LET r == StoreDelete(db, collection[c])
       IN  ApplyStore(c, "delete", TRUE, r,
                      collection[c] # NoValue /\ r.outcome = "ok", {}, NoDict)

StoreClearOp(c) ==
    /\ c_pc[c] = "idle"
    /\ \E backend_ok \in BOOLEAN, delete_ok \in BOOLEAN, create_ok \in BOOLEAN :
        LET r == StoreClear(db, collection[c], backend_ok, delete_ok, create_ok)
        IN  ApplyStore(c, "clear", backend_ok /\ delete_ok /\ create_ok, r, FALSE,
                       {}, r.result)

\* The first call of ChromaDB that fails during a clear_collection, if any;
\* the calls after it are not made.
ClearFaults == {"none", "client", "delete", "create"}

\* What git does and what the repository holds when it succeeds.
Downloads ==
    {<<"ok", latest>> : latest \in SUBSET ChunkIds}
        \cup {<<git, {}>> : git \in GitOutcomes \ {"ok"}}

\* update_rag_data of the store of client c.
UpdateRagDataOp(c) ==
    /\ c_pc[c] = "idle"
    /\ \E rmtree_ok \in BOOLEAN, fault \in ClearFaults, download \in Downloads :
        LET r == UpdateRagData(db, collection[c], templates_dir, rmtree_ok,
                               fault # "client", fault # "delete",
                               fault # "create", download[1], download[2])
        IN  Apply(c, OpRecord("update", "store", collection[c] = NoValue,
                              since_delete[c], fault = "none", r.outcome,
                              StoreExposed("update", r.outcome), r.count, 0, db,
                              r.loaded, r.result),
                  r.db, r.collection, initialized[c], FALSE, r.dir)

EngineInitializeOp(c) ==
    /\ c_pc[c] = "idle"
    /\ \E backend_ok \in BOOLEAN :
        ApplyEngine(c, "initialize", backend_ok,
                    EngineInitialize(db, collection[c], initialized[c], backend_ok),
                    FALSE, {})

EngineSearchOp(c) ==
    /\ c_pc[c] = "idle"
    /\ \E op \in {"search", "by_severity", "by_tags"}, backend_ok \in BOOLEAN :
        ApplyEngine(c, op, backend_ok,
                    EngineSearch(db, collection[c], initialized[c], backend_ok),
                    FALSE, {})

EngineStatsOp(c) ==
    /\ c_pc[c] = "idle"
    /\ \E backend_ok \in BOOLEAN :
        ApplyEngine(c, "stats", backend_ok,
                    EngineStats(db, collection[c], initialized[c], backend_ok),
                    FALSE, {})

EngineReloadOp(c) ==
    /\ c_pc[c] = "idle"
    /\ \E backend_ok \in BOOLEAN, again_ok \in BOOLEAN, ids \in SUBSET ChunkIds :
        LET i == EngineInitialize(db, collection[c], initialized[c], backend_ok)
            r == EngineReload(db, collection[c], initialized[c], backend_ok,
                              again_ok, ids)
        IN  ApplyEngine(c, "reload", backend_ok /\ again_ok, r,
                        /\ i.outcome = "ok"
                        /\ i.collection # NoValue
                        /\ StoreDelete(i.db, i.collection).outcome = "ok",
                        ids)

\* The operations of the API process.
NextStore ==
    \/ StoreInitializeOp("api")
    \/ StoreAddOp("api")
    \/ StoreSearchOp("api")
    \/ StoreStatsOp("api")
    \/ StoreDeleteOp("api")
    \/ StoreClearOp("api")
    \/ EngineInitializeOp("api")
    \/ EngineSearchOp("api")
    \/ EngineStatsOp("api")
    \/ EngineReloadOp("api")

SpecStore == InitStore /\ [][NextStore]_vars

\* ------------------------- one process updating its RAG data

\* The collection may exist with a chunk, and the directory may hold the
\* templates of an earlier download.
InitUpdate ==
    /\ AgentIdle
    /\ ParseIdle
    /\ RunIdle
    /\ SearchIdle
    /\ AuxIdle
    /\ db \in {NoCollection, Db(TRUE, 1, {"c1"})}
    /\ collection = [c \in Clients |-> NoValue]
    /\ initialized = [c \in Clients |-> FALSE]
    /\ c_pc = [c \in Clients |-> "idle"]
    /\ c_last = [c \in Clients |-> NoValue]
    /\ since_delete = [c \in Clients |-> FALSE]
    /\ creations = 0
    /\ since_clear = [c \in Clients |-> NoValue]
    /\ templates_dir \in {NoValue, Some({"c1"})}

\* The API process initializes its store, updates the RAG data, adds
\* chunks and reads the statistics.
NextUpdate ==
    \/ StoreInitializeOp("api")
    \/ UpdateRagDataOp("api")
    \/ StoreAddOp("api")
    \/ StoreStatsOp("api")

SpecUpdate == InitUpdate /\ [][NextUpdate]_vars

\* ------------- two instances of the store over the same collection

\* One instance ("api": the service the health check reads through, or the
\* API's agent) serves searches and statistics through its own RAGEngine
\* and VectorDBService.  A second one ("job": the agent scheduled_rag_update
\* builds for a run, or the agent behind the maintenance endpoints)
\* initializes and then clears, reloads or updates through its own; one such
\* operation of it is observed.  Each operation runs without suspension
\* inside the event loop.
Replaced ==
    /\ c_last["job"] # NoValue
    /\ Get(c_last["job"]).op # "initialize"

NextShared ==
    \/ EngineInitializeOp("api")
    \/ EngineSearchOp("api")
    \/ EngineStatsOp("api")
    \/ ~Replaced /\ EngineInitializeOp("job")
    \/ ~Replaced /\ StoreClearOp("job")
    \/ ~Replaced /\ EngineReloadOp("job")
    \/ ~Replaced /\ UpdateRagDataOp("job")

SpecShared == InitStore /\ [][NextShared]_vars

\* ------------------- two processes initializing over the same ChromaDB

\* Inside one event loop _initialize_chromadb runs without suspension; two
\* processes interleave at its calls of ChromaDB, get_collection and
\* create_collection.

InitConcurrent ==
    /\ AgentIdle
    /\ ParseIdle
    /\ RunIdle
    /\ SearchIdle
    /\ AuxIdle
    /\ db = NoCollection
    /\ collection = [c \in Clients |-> NoValue]
    /\ initialized = [c \in Clients |-> FALSE]
    /\ c_pc = [c \in Clients |-> "idle"]
    /\ c_last = [c \in Clients |-> NoValue]
    /\ since_delete = [c \in Clients |-> FALSE]
    /\ creations = 0
    /\ since_clear = [c \in Clients |-> NoValue]
    /\ templates_dir = NoValue

\* The end of an initialize call of client c.
InitDone(c, level, outcome, d, coll, inits) ==
    /\ db' = d
    /\ collection' = [collection EXCEPT ![c] = coll]
    /\ initialized' = [initialized EXCEPT
                          ![c] = IF level = "engine" /\ outcome = "ok" THEN TRUE
                                 ELSE initialized[c]]
    /\ c_last' = [c_last EXCEPT
                     ![c] = Some(OpRecord("initialize", level,
                                          collection[c] = NoValue, since_delete[c],
                                          TRUE, outcome,
                                          IF outcome = "ok" THEN "value"
                                          ELSE "raised",
                                          0, inits, db, {}, NoDict))]
    /\ c_pc' = [c_pc EXCEPT ![c] = "idle"]
    /\ creations' = creations + (d.gen - db.gen)
    /\ UNCHANGED <<since_delete, since_clear, templates_dir>>
    /\ UNCHANGED <<agentVars, parseVars, runVars, searchVars, auxVars>>

\* RAGEngine.initialize or VectorDBService.initialize up to and including
\* client.get_collection.
InitGet(c) ==
    /\ c_pc[c] = "idle"
    /\ \E level \in {"engine", "store"} :
        IF level = "engine" /\ initialized[c]
        THEN InitDone(c, level, "ok", db, collection[c], 0)
        ELSE LET got == GetCollection(db)
             IN  IF ~got.raised
                 THEN InitDone(c, level, "ok", db, got.handle, 1)
                 ELSE /\ c_pc' = [c_pc EXCEPT ![c] = IF level = "engine"
                                                     THEN "create_engine"
                                                     ELSE "create_store"]
                      /\ UNCHANGED <<db, collection, initialized, c_last,
                                     since_delete, creations, since_clear,
                                     templates_dir>>
                      /\ UNCHANGED <<agentVars, parseVars, runVars, searchVars, auxVars>>

\* The except branch: client.create_collection, and the return or the
\* exception of initialize.
InitCreate(c) ==
    /\ c_pc[c] \in {"create_engine", "create_store"}
    /\ LET level == IF c_pc[c] = "create_engine" THEN "engine" ELSE "store"
           made == CreateCollection(db)
       IN  IF made.raised
           THEN InitDone(c, level, "already_exists", db, collection[c], 1)
           ELSE InitDone(c, level, "ok", made.db, made.handle, 1)

\* An attached process ingests chunks.
AddChunks(c) ==
    /\ c_pc[c] = "idle"
    /\ collection[c] # NoValue
    /\ \E ids \in (SUBSET ChunkIds) \ {{}} :
        LET r == StoreAdd(db, collection[c], ids)
        IN  /\ db' = r.db
            /\ c_last' = [c_last EXCEPT
                             ![c] = Some(OpRecord("add", "store", FALSE,
                                                  since_delete[c], TRUE, r.outcome,
                                                  StoreExposed("add", r.outcome),
                                                  r.count, 0, db, ids, NoDict))]
            /\ UNCHANGED <<collection, initialized, c_pc, since_delete, creations,
                           since_clear, templates_dir>>
            /\ UNCHANGED <<agentVars, parseVars, runVars, searchVars, auxVars>>

NextConcurrent == \E c \in Clients : InitGet(c) \/ InitCreate(c) \/ AddChunks(c)

SpecConcurrent == InitConcurrent /\ [][NextConcurrent]_vars

\* C18: when several callers initialize a store whose collection does not
\* exist yet, exactly one call creates the collection, every other call
\* attaches to that same collection, and no call fails.
C18_ConcurrentInitializeSafe ==
    /\ creations <= 1
    /\ \A c \in Clients :
          (c_last[c] # NoValue /\ Get(c_last[c]).op = "initialize") =>
              /\ Get(c_last[c]).outcome = "ok"
              /\ creations = 1
              /\ collection[c] = Some(db.gen)

\* C19: after delete_collection the store has no attached collection; until
\* initialize is called again, add_documents and search_similar fail with
\* the not-initialized error and get_collection_stats reports the
\* not-initialized signal; a following initialize attaches the store to a
\* fresh, empty collection of the same name.
C19_DeleteDetaches ==
    \A c \in Clients :
        /\ since_delete[c] => collection[c] = NoValue
        /\ c_last[c] # NoValue =>
              LET r == Get(c_last[c])
              IN  /\ (r.level = "store" /\ r.op = "delete" /\ r.outcome = "ok") =>
                        /\ collection[c] = NoValue
                        /\ ~r.unattached => (since_delete[c] /\ ~db.exists)
                  /\ (r.level = "store" /\ r.after_delete
                      /\ r.op \in {"add", "search"}) =>
                        /\ r.outcome = "not_initialized"
                        /\ r.exposed = "raised"
                        /\ db = r.before
                        /\ collection[c] = NoValue
                  /\ (r.level = "store" /\ r.after_delete /\ r.op = "stats") =>
                        /\ r.outcome = "not_initialized"
                        /\ r.exposed = "error_signal"
                        /\ collection[c] = NoValue
                  /\ (r.level = "store" /\ r.after_delete /\ r.op = "initialize"
                      /\ r.outcome = "ok") =>
                        /\ collection[c] = Some(db.gen)
                        /\ db.exists
                        /\ db.chunks = {}
                        /\ db.gen = r.before.gen + 1

\* A store that was attached, deleted its collection and initialized again
\* is attached to the second collection of the name, which is empty.
C19_Witness ==
    /\ c_last["api"] # NoValue
    /\ Get(c_last["api"]).level = "store"
    /\ Get(c_last["api"]).op = "initialize"
    /\ Get(c_last["api"]).after_delete
    /\ Get(c_last["api"]).outcome = "ok"
    /\ collection["api"] = Some(2)
    /\ db = Db(TRUE, 2, {})

\* C20: whenever an engine operation (search, by severity, by tags, stats,
\* reload) is invoked while the store has no attached collection, the
\* engine initializes the store and the operation then runs against the
\* attached collection: with the backend reachable, the not-initialized
\* condition never surfaces as a failure or as an empty result.
C20_LazyInitRecovers ==
    \A c \in Clients :
        c_last[c] # NoValue =>
            LET r == Get(c_last[c])
            IN  (/\ r.level = "engine"
                 /\ r.op \in {"search", "by_severity", "by_tags", "stats", "reload"}
                 /\ r.unattached
                 /\ r.backend_ok)
                => /\ r.outcome = "ok"
                   /\ r.exposed = "value"
                   /\ collection[c] # NoValue
                   /\ (r.op # "reload" => r.inits = 1)

\* ------------------------------------- _split_document and chunk ids

\* Largest number of ingestions of one series explored.
MaxIngests == 3

\* The chunk_size of the text splitter, in units of the paragraph lengths
\* below.
ChunkSize == 2

\* Paths of template files as load_nuclei_template records them; the first
\* two have the same first 8 hex digits of their md5.
PathCve17774 == "rag_data/nuclei_templates/http/cves/2021/CVE-17774.yaml"
PathCve83472 == "rag_data/nuclei_templates/http/cves/2021/CVE-83472.yaml"
PathLogin == "rag_data/nuclei_templates/http/login.yaml"

\* hashlib.md5(file_path.encode()).hexdigest()[:8], tabulated for the
\* paths above and for the empty path of a document without file_path.
Md5Prefix(file_path) ==
    CASE file_path = PathCve17774 -> "a0355047"
      [] file_path = PathCve83472 -> "a0355047"
      [] file_path = PathLogin    -> "1d3df4a4"
      [] OTHER                    -> "d41d8cd9"

\* f"{doc_id}_{file_hash}_chunk_{i}"
ChunkId(doc_id, file_path, i) ==
    <<doc_id, "_", Md5Prefix(file_path), "_chunk_", i>>

RECURSIVE SumLen(_)
SumLen(paragraphs) ==
    IF paragraphs = <<>> THEN 0
    ELSE Head(paragraphs) + SumLen(Tail(paragraphs))

\* text_splitter.split_text: the content is a sequence of paragraphs, given
\* by their lengths; consecutive paragraphs are merged into one chunk while
\* they fit into chunk_size.
RECURSIVE MergeSplits(_, _, _)
MergeSplits(splits, current, chunks) ==
    IF splits = <<>>
    THEN IF current = <<>> THEN chunks ELSE Append(chunks, current)
    ELSE IF current # <<>> /\ SumLen(current) + Head(splits) > ChunkSize
         THEN MergeSplits(Tail(splits), <<Head(splits)>>, Append(chunks, current))
         ELSE MergeSplits(Tail(splits), Append(current, Head(splits)), chunks)

SplitText(content) == MergeSplits(content, <<>>, <<>>)

\* A document as add_documents receives it.
Document(id, content, file_path) ==
    [id |-> id, content |-> content, metadata |-> [file_path |-> file_path]]

\* A _split_document that numbers the chunks by their position in the
\* collection.
SplitDocumentNumbering(document, stored) ==
    LET chunks == SplitText(document.content)
    IN  [i \in 1..Len(chunks) |->
            [id |-> ChunkId(document.id, document.metadata.file_path,
                            stored + i - 1),
             content |-> chunks[i],
             metadata |-> [file_path |-> document.metadata.file_path,
                           chunk_index |-> i - 1,
                           total_chunks |-> Len(chunks),
                           source_doc_id |-> document.id]]]

\* VectorDBService._split_document, called while the collection holds
\* the given number of chunks.
SplitDocument(document, stored) ==
    LET chunks == SplitText(document.content)
    IN  [i \in 1..Len(chunks) |->
            [id |-> ChunkId(document.id, document.metadata.file_path, i - 1),
             content |-> chunks[i],
             metadata |-> [file_path |-> document.metadata.file_path,
                           chunk_index |-> i - 1,
                           total_chunks |-> Len(chunks),
                           source_doc_id |-> document.id]]]

\* The documents ingested in the model: two template ids, three files,
\* contents of no, one, two and three chunks.
DocIds == {"sqli-check", "login-panel"}
FilePaths == {PathCve17774, PathCve83472, PathLogin}
Contents == {<<>>, <<1, 1>>, <<2, 2>>, <<1, 2, 2>>}
Documents ==
    {Document(id, content, file_path) :
        id \in DocIds, content \in Contents, file_path \in FilePaths}

\* The chunks of the ingestions so far.
RECURSIVE ChunksOf(_)
ChunksOf(log) ==
    IF log = <<>> THEN {}
    ELSE Range(Head(log).chunks) \cup ChunksOf(Tail(log))

\* The ids in the collection: ids are kept once.
StoredIds(log) == {c.id : c \in ChunksOf(log)}

InitSplit ==
    /\ AgentIdle
    /\ ParseIdle
    /\ RunIdle
    /\ SearchIdle
    /\ StoreIdle
    /\ TempIdle
    /\ AddIdle
    /\ ExtractIdle
    /\ AuthIdle
    /\ ServiceIdle
    /\ g_pc = "ingesting"
    /\ g_log = <<>>

\* add_documents 141-144 for one document of the list.
IngestDocument(document) ==
    /\ g_pc = "ingesting"
    /\ Len(g_log) < MaxIngests
    /\ g_log' = Append(g_log,
                       [document |-> document,
                        chunks |-> SplitDocument(document,
                                                 Cardinality(StoredIds(g_log)))])
    /\ UNCHANGED g_pc
    /\ UNCHANGED notSplitVars

NextSplit == \E document \in Documents : IngestDocument(document)

SpecSplit == InitSplit /\ [][NextSplit]_vars

\* C23: two chunks that differ in source document id, source path or
\* sequence index never have the same chunk id, and the chunks of one
\* document carry chunk_index 0..n-1 and total_chunks = n.
C23_ChunkIdsUnique ==
    /\ \A c1 \in ChunksOf(g_log), c2 \in ChunksOf(g_log) :
          (\/ c1.metadata.source_doc_id # c2.metadata.source_doc_id
           \/ c1.metadata.file_path # c2.metadata.file_path
           \/ c1.metadata.chunk_index # c2.metadata.chunk_index)
          => c1.id # c2.id
    /\ \A k \in 1..Len(g_log) :
          \A i \in 1..Len(g_log[k].chunks) :
              /\ g_log[k].chunks[i].metadata.chunk_index = i - 1
              /\ g_log[k].chunks[i].metadata.total_chunks = Len(g_log[k].chunks)

\* C24: an ingestion of a document that was ingested before, with the same
\* content and the same source path, produces the same set of chunk ids as
\* the first one, whatever was ingested in between.
C24_ReingestSameIds ==
    \A j \in 1..Len(g_log), k \in 1..Len(g_log) :
        (j < k /\ g_log[j].document = g_log[k].document) =>
            {c.id : c \in Range(g_log[j].chunks)}
                = {c.id : c \in Range(g_log[k].chunks)}

\* A document of two chunks was ingested, then another document, then the
\* first one again.
C24_Witness ==
    /\ Len(g_log) = 3
    /\ g_log[1].document = g_log[3].document
    /\ g_log[2].document # g_log[1].document
    /\ Len(g_log[1].chunks) = 2
    /\ Len(g_log[2].chunks) > 0

\* ------------------------------------------ add_documents, batch by batch

\* batch_size of add_documents (5000 in the code), scaled.
BatchSize == 2

\* The documents given to the observed calls: none, or up to two of a
\* template without content, one of two chunks and one of three chunks.
AddPool ==
    {Document("empty-template", <<>>, PathLogin),
     Document("sqli-check", <<2, 2>>, PathCve17774),
     Document("login-panel", <<1, 2, 2>>, PathLogin)}

AddInputs ==
    {<<>>} \cup {<<d>> : d \in AddPool}
           \cup {p \in AddPool \X AddPool : p[1] # p[2]}

\* add_documents 141-144: the chunks of all documents, in order.
RECURSIVE ProcessedDocs(_)
ProcessedDocs(documents) ==
    IF documents = <<>> THEN <<>>
    ELSE SplitDocument(Head(documents), 0) \o ProcessedDocs(Tail(documents))

\* A slice without its upper end: processed_docs[i:].
BatchToEnd(processed_docs, i) ==
    SubSeq(processed_docs, i + 1, Len(processed_docs))

\* processed_docs[i:i + batch_size], for the 0-based i of the code.
Batch(processed_docs, i) ==
    SubSeq(processed_docs, i + 1, Min(i + BatchSize, Len(processed_docs)))

\* The ids of a batch.
BatchIds(batch) == [k \in 1..Len(batch) |-> batch[k].id]

\* What the caller of the call makes of its end.  add_documents and
\* bulk_load_templates return the count or let the exception pass;
\* update_rag_data puts the count into templates_loaded and turns an
\* exception into its failed dict, whose templates_loaded is 0.
Surface(caller, raised, error, count) ==
    IF caller = "update_rag_data"
    THEN [exposed |-> "value",
          status |-> IF raised THEN "failed"
                     ELSE IF count = 0 THEN "partial_failure" ELSE "success",
          error |-> error,
          count |-> IF raised THEN Some(0) ELSE Some(count)]
    ELSE [exposed |-> IF raised THEN "raised" ELSE "value",
          status |-> "",
          error |-> error,
          count |-> IF raised THEN NoValue ELSE Some(count)]

InitAdd ==
    /\ AgentIdle
    /\ ParseIdle
    /\ RunIdle
    /\ SearchIdle
    /\ StoreIdle
    /\ TempIdle
    /\ SplitIdle
    /\ ExtractIdle
    /\ AuthIdle
    /\ ServiceIdle
    /\ a_pc = "start"
    /\ a_caller \in {"add_documents", "bulk_load_templates", "update_rag_data"}
    /\ a_attached \in BOOLEAN
    /\ a_documents \in AddInputs
    /\ a_processed = <<>>
    /\ a_i = 0
    /\ a_total_added = 0
    /\ a_stored \in {{}, {ChunkId("old-template", PathLogin, 0)}}
    /\ a_embeds = <<>>
    /\ a_inserts = <<>>
    /\ a_result = NoValue

\* The call ends with an exception.
AddRaise(error) ==
    /\ a_pc' = "raised"
    /\ a_result' = Some(Surface(a_caller, TRUE, error, 0))

\* An add_documents that does not check the collection.
StartAddUnchecked ==
    /\ a_pc = "start"
    /\ a_processed' = ProcessedDocs(a_documents)
    /\ IF a_processed' = <<>>
       THEN /\ a_pc' = "returned"
            /\ a_result' = Some(Surface(a_caller, FALSE, "", 0))
       ELSE /\ a_pc' = "embed"
            /\ a_result' = a_result
    /\ UNCHANGED <<a_caller, a_attached, a_documents, a_i, a_total_added,
                   a_stored, a_embeds, a_inserts>>
    /\ UNCHANGED notAddVars

\* add_documents 138-151: the check of the collection, the splitting, and
\* the return of 0 when there is no chunk.
StartAdd ==
    /\ a_pc = "start"
    /\ IF ~a_attached
       THEN /\ AddRaise("Vector database not initialized")
            /\ UNCHANGED a_processed
       ELSE /\ a_processed' = ProcessedDocs(a_documents)
            /\ IF a_processed' = <<>>
               THEN /\ a_pc' = "returned"
                    /\ a_result' = Some(Surface(a_caller, FALSE, "", 0))
               ELSE /\ a_pc' = "embed"
                    /\ a_result' = a_result
    /\ UNCHANGED <<a_caller, a_attached, a_documents, a_i, a_total_added,
                   a_stored, a_embeds, a_inserts>>
    /\ UNCHANGED notAddVars

\* add_documents 154-161: the embedding call of the batch at i; the call
\* may fail.
EmbedBatch ==
    /\ a_pc = "embed"
    /\ \E ok \in BOOLEAN :
        IF ok
        THEN /\ a_embeds' = Append(a_embeds, BatchIds(Batch(a_processed, a_i)))
             /\ a_pc' = "insert"
             /\ a_result' = a_result
        ELSE /\ AddRaise("embedding failed")
             /\ UNCHANGED a_embeds
    /\ UNCHANGED <<a_caller, a_attached, a_documents, a_processed, a_i,
                   a_total_added, a_stored, a_inserts>>
    /\ UNCHANGED notAddVars

\* add_documents 164-178: collection.add of the batch at i, the count, and
\* either the next batch or the return of total_added; the insert may fail.
InsertBatch ==
    /\ a_pc = "insert"
    /\ \E ok \in BOOLEAN :
        IF ok
        THEN LET batch == Batch(a_processed, a_i)
             IN  /\ a_inserts' = Append(a_inserts, BatchIds(batch))
                 /\ a_stored' = a_stored \cup Range(BatchIds(batch))
                 /\ a_total_added' = a_total_added + Len(batch)
                 /\ a_i' = a_i + BatchSize
                 /\ IF a_i' < Len(a_processed)
                    THEN /\ a_pc' = "embed"
                         /\ a_result' = a_result
                    ELSE /\ a_pc' = "returned"
                         /\ a_result' = Some(Surface(a_caller, FALSE, "",
                                                     a_total_added'))
        ELSE /\ AddRaise("insert failed")
             /\ UNCHANGED <<a_inserts, a_stored, a_total_added, a_i>>
    /\ UNCHANGED <<a_caller, a_attached, a_documents, a_processed, a_embeds>>
    /\ UNCHANGED notAddVars

NextAdd == StartAdd \/ EmbedBatch \/ InsertBatch

SpecAdd == InitAdd /\ [][NextAdd]_vars

\* The chunk ids this call has put into the collection.
RECURSIVE Committed(_)
Committed(inserts) ==
    IF inserts = <<>> THEN {}
    ELSE Range(Head(inserts)) \cup Committed(Tail(inserts))

\* C25: add_documents on a store without an attached collection fails the
\* whole call: nothing is split, embedded or inserted, no count of added
\* chunks other than zero is reported, and the collection is unchanged.
C25_AddUninitializedFails ==
    (~a_attached /\ a_pc \notin {"idle", "start"}) =>
        /\ a_pc = "raised"
        /\ Get(a_result).error = "Vector database not initialized"
        /\ Get(a_result).count \in {NoValue, Some(0)}
        /\ a_processed = <<>>
        /\ a_embeds = <<>>
        /\ a_inserts = <<>>
        /\ a_total_added = 0
        /\ a_stored \in {{}, {ChunkId("old-template", PathLogin, 0)}}

\* add_documents was called with two documents on a store without a
\* collection, and has ended.
C25_Witness ==
    /\ ~a_attached
    /\ a_pc = "raised"
    /\ Len(a_documents) = 2
    /\ a_caller = "add_documents"

\* C26: when the call fails in a batch after earlier batches were inserted,
\* the caller is told of the failure together with the number of chunks
\* committed so far, and that number is the number of chunks the call has
\* put into the collection; the same for templates_loaded of
\* update_rag_data.
C26_PartialFailureCounted ==
    (a_pc = "raised" /\ a_inserts # <<>>) =>
        /\ Get(a_result).error # ""
        /\ Get(a_result).count = Some(Cardinality(Committed(a_inserts)))

\* The batches of a call, one after the other, as one sequence of ids.
RECURSIVE Flatten(_)
Flatten(batches) ==
    IF batches = <<>> THEN <<>>
    ELSE Head(batches) \o Flatten(Tail(batches))

\* C31: add_documents on a store with a collection cuts the chunk list, in
\* order, into consecutive batches of at most batch_size chunks; each batch
\* is embedded once and inserted once, an insert following its embedding and
\* nothing being tried again; every chunk is inserted in exactly one batch,
\* and a call that returns has inserted all chunks and returns their number,
\* the sum of the batch sizes.
C31_BatchedInsert ==
    (a_attached /\ a_pc \notin {"idle", "start"}) =>
        LET ids == BatchIds(a_processed)
        IN  /\ \A k \in 1..Len(a_embeds) :
                  /\ Len(a_embeds[k]) \in 1..BatchSize
                  /\ a_embeds[k] = BatchIds(Batch(a_processed,
                                                  (k - 1) * BatchSize))
            /\ Len(a_inserts) <= Len(a_embeds)
            /\ Len(a_embeds) <= Len(a_inserts) + 1
            /\ a_inserts = SubSeq(a_embeds, 1, Len(a_inserts))
            /\ Flatten(a_inserts) = SubSeq(ids, 1, Len(Flatten(a_inserts)))
            /\ a_total_added = Len(Flatten(a_inserts))
            /\ a_pc = "returned" =>
                  /\ Flatten(a_inserts) = ids
                  /\ a_embeds = a_inserts
                  /\ Get(a_result).count = Some(Len(ids))

\* A call with more chunks than one batch holds has returned; its last
\* batch is not full.
C31_Witness ==
    /\ a_attached
    /\ a_pc = "returned"
    /\ Len(a_inserts) >= 2
    /\ Len(a_inserts[Len(a_inserts)]) < BatchSize
    /\ Len(a_inserts[1]) = BatchSize

\* ----------------------------- extraction of the payload from a response

\* Largest number of lines of an LLM response explored.
MaxResponseLines == 4

BoldLine == <<"**", "Note">>

\* The lines an LLM response is made of.
ResponseLines ==
    {FenceYaml, FenceClose, IdLine, InfoLine, ProseLine, CommentLine, BoldLine,
     <<>>}

Responses ==
    UNION {[1..n -> ResponseLines] : n \in 1..MaxResponseLines}

\* line.strip().startswith('```yaml') or line.strip().startswith('```yml')
OpensYamlBlock(line) ==
    StartsWith(line, "[fence]yaml") \/ StartsWith(line, "[fence]yml")

\* nuclei_service.py 254-263: the lines of the first yaml block.
RECURSIVE BlockLoop(_, _, _, _)
BlockLoop(lines, in_yaml_block, found_yaml_block, yaml_lines) ==
    IF lines = <<>>
    THEN [found_yaml_block |-> found_yaml_block, yaml_lines |-> yaml_lines]
    ELSE LET line == Head(lines)
         IN  IF OpensYamlBlock(line)
             THEN BlockLoop(Tail(lines), TRUE, TRUE, yaml_lines)
             ELSE IF line = FenceClose /\ in_yaml_block
             THEN [found_yaml_block |-> found_yaml_block,
                   yaml_lines |-> yaml_lines]
             ELSE IF in_yaml_block
             THEN BlockLoop(Tail(lines), TRUE, found_yaml_block,
                            Append(yaml_lines, line))
             ELSE BlockLoop(Tail(lines), FALSE, found_yaml_block, yaml_lines)

\* The keys that start the YAML of a template.
StructuralKeys ==
    {"id:", "info:", "variables:", "requests:", "http:", "network:", "file:"}

OpensStructuralKey(line) == \E key \in StructuralKeys : StartsWith(line, key)

\* nuclei_service.py 271-287: the lines from the first structural key on.
RECURSIVE KeyLoop(_, _, _)
KeyLoop(lines, yaml_started, yaml_lines) ==
    IF lines = <<>> THEN yaml_lines
    ELSE LET line == Head(lines)
         IN  IF StartsWith(line, "#") /\ ~yaml_started
             THEN KeyLoop(Tail(lines), yaml_started, yaml_lines)
             ELSE IF StartsWith(line, "**")
                     \/ (StartsWith(line, "*") /\ ~yaml_started)
             THEN KeyLoop(Tail(lines), yaml_started, yaml_lines)
             ELSE IF StartsWith(line, "[fence]") /\ ~StartsWith(line, "[fence]yaml")
             THEN KeyLoop(Tail(lines), yaml_started, yaml_lines)
             ELSE LET started == yaml_started \/ OpensStructuralKey(line)
                  IN  KeyLoop(Tail(lines), started,
                              IF started THEN Append(yaml_lines, line)
                              ELSE yaml_lines)

\* NucleiTemplateService._extract_yaml_content
ServiceExtractYamlContent(content) ==
    LET block == BlockLoop(content, FALSE, FALSE, <<>>)
        yaml_content ==
            IF block.found_yaml_block /\ block.yaml_lines # <<>>
            THEN Strip(block.yaml_lines)
            ELSE Strip(KeyLoop(content, FALSE, <<>>))
    IN  IF ~Truthy(yaml_content) THEN Strip(content) ELSE yaml_content

InitExtract ==
    /\ AgentIdle
    /\ ParseIdle
    /\ RunIdle
    /\ SearchIdle
    /\ StoreIdle
    /\ TempIdle
    /\ SplitIdle
    /\ AddIdle
    /\ AuthIdle
    /\ ServiceIdle
    /\ x_pc = "input"
    /\ x_response \in Responses
    /\ x_agent = NoValue
    /\ x_service = NoValue

\* response.generations[0][0].text.strip() and _extract_yaml_content, in
\* NucleiAgent._generate_template_content and in
\* NucleiTemplateService._generate_template_content.
ExtractStep ==
    /\ x_pc = "input"
    /\ x_pc' = "extracted"
    /\ x_agent' = Some(ExtractYamlContent(Strip(x_response)))
    /\ x_service' = Some(ServiceExtractYamlContent(Strip(x_response)))
    /\ UNCHANGED x_response
    /\ UNCHANGED notExtractVars

NextExtract == ExtractStep

SpecExtract == InitExtract /\ [][NextExtract]_vars

\* The positions of the lines that open a yaml block, that close a block
\* and that open a structural key.
OpenFences(text) == {i \in 1..Len(text) : OpensYamlBlock(text[i])}
CloseFences(text) == {i \in 1..Len(text) : text[i] = FenceClose}
KeyLines(text) == {i \in 1..Len(text) : OpensStructuralKey(text[i])}

Least(S) == CHOOSE i \in S : \A j \in S : i <= j

\* The payload the extraction rule prescribes for a response, or None
\* where the rule does not say (a block that is not closed, is blank or
\* holds another opening fence).
Prescribed(text) ==
    IF OpenFences(text) # {}
    THEN LET open == Least(OpenFences(text))
             closes == {j \in CloseFences(text) : j > open}
         IN  IF closes = {} THEN NoValue
             ELSE LET inside == Strip(SubSeq(text, open + 1, Least(closes) - 1))
                  IN  IF Truthy(inside) /\ OpenFences(inside) = {}
                      THEN Some(inside) ELSE NoValue
    ELSE IF KeyLines(text) # {}
    THEN Some(Strip(SubSeq(text, Least(KeyLines(text)), Len(text))))
    ELSE Some(text)

\* A payload follows the extraction rule.
FollowsRule(text, payload) ==
    /\ Prescribed(Strip(text)) # NoValue =>
          payload = Get(Prescribed(Strip(text)))
    /\ Truthy(Strip(text)) => Truthy(payload)

\* C28: the payload extracted from a response is the lines inside its
\* first fenced yaml block if it has one, else the lines from the first
\* line that opens a structural key, else the whole response, and it is
\* not empty for a response that is not empty; for the extraction of the
\* agent and for that of the service.
C28_PayloadExtraction ==
    x_pc = "extracted" =>
        /\ FollowsRule(x_response, Get(x_agent))
        /\ FollowsRule(x_response, Get(x_service))

\* ------------------------------------------------- TokenAuthMiddleware

\* main.py 74-77: the paths served without a token.
ExcludedPaths == {"/health", "/docs", "/redoc", "/openapi.json"}

\* The requests of the model: an excluded and a protected path; the token
\* header absent, empty, blank, right or wrong; the Authorization header
\* absent, or carrying the right or a wrong token, bare or as a Bearer.
Paths == {"/health", "/api/v1/generate_template"}
TokenHeaders == {NoValue, Some(""), Some(" "), Some("secret"), Some("wrong")}
AuthorizationHeaders ==
    {NoValue, Some(<<"Bearer", "secret">>), Some(<<"secret">>),
     Some(<<"Bearer", "wrong">>)}
ApiTokens == {NoValue, Some("secret"), Some("")}

\* token.strip()
StripToken(token) == IF token = " " THEN "" ELSE token

\* TokenAuthMiddleware._extract_token: headers.get("token"), None when it
\* is absent or empty.
ExtractToken(request) ==
    IF request.token # NoValue /\ Get(request.token) # "" THEN request.token
    ELSE NoValue

\* TokenAuthMiddleware._validate_token
ValidateToken(token, api_token) ==
    IF token = "" \/ StripToken(token) = "" THEN FALSE
    ELSE Some(token) = api_token

InitAuth ==
    /\ AgentIdle
    /\ ParseIdle
    /\ RunIdle
    /\ SearchIdle
    /\ StoreIdle
    /\ TempIdle
    /\ SplitIdle
    /\ AddIdle
    /\ ExtractIdle
    /\ ServiceIdle
    /\ m_pc = "received"
    /\ m_request \in {Request(path, token, authorization) :
                        path \in Paths, token \in TokenHeaders,
                        authorization \in AuthorizationHeaders}
    /\ m_api_token \in ApiTokens
    /\ m_status = 0
    /\ m_handler_ran = FALSE

\* TokenAuthMiddleware.dispatch; the handler behind call_next answers 200.
Dispatch ==
    /\ m_pc = "received"
    /\ m_pc' = "answered"
    /\ LET token == ExtractToken(m_request)
       IN  IF m_request.path \in ExcludedPaths
           THEN m_handler_ran' = TRUE /\ m_status' = 200
           ELSE IF token = NoValue
           THEN m_handler_ran' = FALSE /\ m_status' = 401
           ELSE IF ~ValidateToken(Get(token), m_api_token)
           THEN m_handler_ran' = FALSE /\ m_status' = 401
           ELSE m_handler_ran' = TRUE /\ m_status' = 200
    /\ UNCHANGED <<m_request, m_api_token>>
    /\ UNCHANGED notAuthVars

NextAuth == Dispatch

SpecAuth == InitAuth /\ [][NextAuth]_vars

\* The request carries the configured token, which is not blank, in its
\* token header or in its Authorization header.
SuppliesToken(request, api_token) ==
    /\ api_token # NoValue
    /\ StripToken(Get(api_token)) # ""
    /\ \/ request.token = api_token
       \/ request.authorization = Some(<<Get(api_token)>>)
       \/ request.authorization = Some(<<"Bearer", Get(api_token)>>)

\* C29: a request to a path that is not excluded reaches the handler
\* exactly when it carries the configured, non-empty API_TOKEN in its token
\* header or in its Authorization header; every other such request is
\* answered 401 without the handler; with API_TOKEN unset none is accepted.
C29_TokenGate ==
    (m_pc = "answered" /\ m_request.path \notin ExcludedPaths) =>
        /\ m_handler_ran <=> SuppliesToken(m_request, m_api_token)
        /\ ~m_handler_ran => m_status = 401
        /\ m_api_token = NoValue => ~m_handler_ran

\* ------------------------- NucleiTemplateService.generate_template

\* An answer of the LLM that is not YAML.
UnclosedLine == <<"id:", "[unclosed">>
RespBroken == <<UnclosedLine>>

ServiceLLMOutcomes ==
    LLMOutcomes \cup {[ok |-> TRUE, text |-> RespBroken, reason |-> "none"]}

\* _validate_yaml_syntax: yaml.safe_load accepts the content.
YamlLoads(content) == \A i \in 1..Len(content) : content[i] # UnclosedLine

\* getattr on a settings object: the attribute exists iff the field is
\* declared.
HasAttr(settings, name) == name \in DOMAIN settings

\* TemplateGenerationResponse
ServiceResponse(success, template_id, content) ==
    [success |-> success, template_id |-> template_id,
     generated_template |-> content]

\* The response of the outer handler, nuclei_service.py 208-214.
FailedGeneration == ServiceResponse(FALSE, "failed_generation", EmptyText)

\* The end of one pass of the loop body: the locals, and whether the loop
\* is left by break.
Pass(template, result, break) ==
    [generated_template |-> template, last_validation_result |-> result,
     break |-> break]

\* nuclei_service.py 153-187: one pass of the loop, for the answer of the
\* LLM, for what the validator does and for the answer to a refinement.
LoopBody(settings, att, previous, llm, proc, refine) ==
    LET content == ServiceExtractYamlContent(Strip(llm.text))
        last == att = settings.max_retries - 1
        Failed(template) ==
            Pass(IF last THEN NoValue ELSE template,
                 Some(ValidationResult(FALSE,
                                       <<Msg("attempt_failed", att + 1, EmptyText)>>,
                                       <<>>)),
                 FALSE)
    IN  IF ~llm.ok \/ ~YamlLoads(content) THEN Failed(previous)
        ELSE IF ~HasAttr(settings, "validation_required")
        THEN Failed(Some(content))
        ELSE IF settings.validation_required
        THEN LET v == ValidateTemplate(proc)
             IN  IF v.raised THEN Failed(Some(content))
                 ELSE IF v.result.is_valid
                 THEN Pass(Some(content), Some(v.result), TRUE)
                 ELSE IF ~last
                 THEN IF refine.ok
                      THEN Pass(Some(ServiceExtractYamlContent(Strip(refine.text))),
                                Some(v.result), FALSE)
                      ELSE Failed(Some(content))
                 ELSE Pass(NoValue, Some(v.result), FALSE)
        ELSE Pass(Some(content), Some(ValidationResult(TRUE, <<>>, <<>>)), TRUE)

InitService ==
    /\ AgentIdle
    /\ ParseIdle
    /\ RunIdle
    /\ SearchIdle
    /\ StoreIdle
    /\ TempIdle
    /\ SplitIdle
    /\ AddIdle
    /\ ExtractIdle
    /\ AuthIdle
    /\ n_pc = "start"
    /\ n_settings \in {TemplateGenerationSettings(max) : max \in 0..MaxRetriesBound}
    /\ n_attempt = 0
    /\ n_generated_template = NoValue
    /\ n_last_validation_result = NoValue
    /\ n_response = NoValue
    /\ n_history = <<>>

\* nuclei_service.py 133-150: the initialization of the RAG engine, which
\* may raise, and the retrieval, which does not.
ServiceStart ==
    /\ n_pc = "start"
    /\ \E init_ok \in BOOLEAN :
        IF ~init_ok
        THEN /\ n_pc' = "done"
             /\ n_response' = Some(FailedGeneration)
        ELSE /\ n_pc' = IF n_settings.max_retries > 0 THEN "attempt" ELSE "finish"
             /\ n_response' = n_response
    /\ UNCHANGED <<n_settings, n_attempt, n_generated_template,
                   n_last_validation_result, n_history>>
    /\ UNCHANGED notServiceVars

\* nuclei_service.py 152-187: one pass of the retry loop.
ServiceAttempt ==
    /\ n_pc = "attempt"
    /\ \E llm \in ServiceLLMOutcomes, proc \in ValidatorOutcomes,
          refine \in ServiceLLMOutcomes :
        LET pass == LoopBody(n_settings, n_attempt, n_generated_template, llm,
                             proc, refine)
            content == ServiceExtractYamlContent(Strip(llm.text))
            verdict == ValidateTemplate(proc)
        IN  /\ n_generated_template' = pass.generated_template
            /\ n_last_validation_result' = pass.last_validation_result
            /\ n_history' =
                  Append(n_history,
                         [content |-> IF llm.ok /\ YamlLoads(content)
                                      THEN Some(content) ELSE NoValue,
                          accepts |-> ~verdict.raised /\ verdict.result.is_valid])
            /\ n_attempt' = n_attempt + 1
            /\ n_pc' = IF pass.break \/ n_attempt' >= n_settings.max_retries
                       THEN "finish" ELSE "attempt"
    /\ UNCHANGED <<n_settings, n_response>>
    /\ UNCHANGED notServiceVars

\* nuclei_service.py 189-214: the check after the loop, the response, and
\* the outer handler.
ServiceFinish ==
    /\ n_pc = "finish"
    /\ n_pc' = "done"
    /\ n_response' =
          IF \/ n_generated_template = NoValue
             \/ ~Truthy(Get(n_generated_template))
             \/ /\ n_last_validation_result # NoValue
                /\ ~Get(n_last_validation_result).is_valid
          THEN Some(FailedGeneration)
          ELSE LET template_id == ExtractTemplateId(Get(n_generated_template))
               IN  IF template_id = NoValue THEN Some(FailedGeneration)
                   ELSE Some(ServiceResponse(TRUE, Get(template_id),
                                             Get(n_generated_template)))
    /\ UNCHANGED <<n_settings, n_attempt, n_generated_template,
                   n_last_validation_result, n_history>>
    /\ UNCHANGED notServiceVars

NextService == ServiceStart \/ ServiceAttempt \/ ServiceFinish

SpecService == InitService /\ [][NextService]_vars

\* The attempts whose content is YAML and is accepted by the validator.
AcceptedAttempts ==
    {k \in 1..Len(n_history) :
        /\ k <= n_settings.max_retries
        /\ n_history[k].content # NoValue
        /\ n_history[k].accepts}

\* C30: the service's generate_template returns success = true with the
\* accepted content exactly when the validator accepts the YAML content of
\* some attempt within max_retries; in every other case it returns
\* success = false with template id 'failed_generation' and empty content;
\* it always returns.
C30_ServiceOutcome ==
    n_pc = "done" =>
        /\ n_response # NoValue
        /\ Get(n_response).success <=> AcceptedAttempts # {}
        /\ Get(n_response).success =>
              \E k \in AcceptedAttempts :
                  Get(n_response).generated_template = Get(n_history[k].content)
        /\ ~Get(n_response).success =>
              /\ Get(n_response).template_id = "failed_generation"
              /\ Get(n_response).generated_template = EmptyText

\* C21: after clear_collection has returned status success and before an
\* add, reload, delete or further clear through the same store,
\* get_collection_stats reports zero chunks and the collection name that
\* the clear reported.
C21_ClearThenStatsZero ==
    \A c \in Clients :
        (/\ c_last[c] # NoValue
         /\ Get(c_last[c]).level = "store"
         /\ Get(c_last[c]).op = "stats"
         /\ since_clear[c] # NoValue)
        => /\ Get(c_last[c]).outcome = "ok"
           /\ Get(c_last[c]).count = 0
           /\ Get(c_last[c]).result.collection_name # NoValue
           /\ Get(c_last[c]).result.collection_name
                  = Get(since_clear[c]).collection_name

\* A store cleared its collection and was then asked for its statistics.
C21_Witness ==
    /\ c_last["api"] # NoValue
    /\ Get(c_last["api"]).level = "store"
    /\ Get(c_last["api"]).op = "stats"
    /\ Get(c_last["api"]).outcome = "ok"
    /\ since_clear["api"] # NoValue
    /\ creations >= 1
    /\ db.chunks = {}

\* C22: clear_collection never raises, whether the initialization, the
\* deletion or the re-creation fails: it returns a dict whose status is
\* 'success' or 'failed' and which names the collection.
C22_ClearAlwaysStructured ==
    \A c \in Clients :
        (c_last[c] # NoValue /\ Get(c_last[c]).op = "clear") =>
            /\ Get(c_last[c]).exposed = "value"
            /\ Get(c_last[c]).result.status \in {Some("success"), Some("failed")}
            /\ Get(c_last[c]).result.collection_name = Some(CollectionName)

\* C27: when reload_templates returns the count n, the collection is one
\* created after the previous collection was dropped, and it holds exactly
\* the n chunks of the template files of the directory, so no chunk from
\* before the reload.
C27_ReloadReplaces ==
    \A c \in Clients :
        (/\ c_last[c] # NoValue
         /\ Get(c_last[c]).op = "reload"
         /\ Get(c_last[c]).exposed = "value")
        => /\ db.exists
           /\ collection[c] = Some(db.gen)
           /\ db.gen > Get(c_last[c]).before.gen
           /\ db.chunks = Get(c_last[c]).requested
           /\ Get(c_last[c]).count = Cardinality(db.chunks)

\* A reload over a collection that held the chunk c1 returned 1 and left
\* the collection with the chunk c2 only.
C27_Witness ==
    /\ c_last["api"] # NoValue
    /\ Get(c_last["api"]).op = "reload"
    /\ Get(c_last["api"]).exposed = "value"
    /\ Get(c_last["api"]).before.exists
    /\ Get(c_last["api"]).before.chunks = {"c1"}
    /\ Get(c_last["api"]).count = 1
    /\ db.chunks = {"c2"}

\* The steps update_rag_data notes for its clear, its download and its
\* load, in the order of the code.
StepsInOrder(steps) ==
    \/ steps = <<>>
    \/ /\ Len(steps) >= 4
       /\ steps[1] \in {"Cleared RAG data directory",
                        "Failed to clear RAG data directory"}
       /\ steps[2] \in {"Cleared vector database collection",
                        "Failed to clear collection"}
       /\ steps[3] \in {"Downloaded", "Failed to download templates"}
       /\ steps[4] \in {"Loaded",
                        "Templates directory not found after download"}

\* C32: update_rag_data clears, downloads and loads in that order and
\* returns a dict whatever happens; when the dict has status "success", the
\* clear of the collection succeeded, the download succeeded,
\* templates_loaded is positive, and the collection holds exactly the
\* chunks loaded in this run.
C32_UpdateSuccessIsFresh ==
    \A c \in Clients :
        (c_last[c] # NoValue /\ Get(c_last[c]).op = "update") =>
            LET rec == Get(c_last[c])
            IN  /\ rec.exposed = "value"
                /\ StepsInOrder(rec.result.steps)
                /\ rec.result.status = Some("success") =>
                      /\ rec.result.steps[2] = "Cleared vector database collection"
                      /\ rec.result.steps[3] = "Downloaded"
                      /\ rec.count > 0
                      /\ db.chunks = rec.requested

\* C33: when clear_collection of a store with an attached collection
\* returns status "failed", the collection is as it was before the call,
\* with all its chunks, and the store is not left attached to a collection
\* that was dropped and not created again.
C33_FailedClearLeavesState ==
    \A c \in Clients :
        (/\ c_last[c] # NoValue
         /\ Get(c_last[c]).op = "clear"
         /\ ~Get(c_last[c]).unattached
         /\ Live(Get(c_last[c]).before, collection[c])
         /\ Get(c_last[c]).result.status = Some("failed")) =>
            /\ db = Get(c_last[c]).before
            /\ Live(db, collection[c])

\* The operations that drop and re-create the collection.
ReplacingOps == {"clear", "reload", "update"}

\* C34: a search or stats of one instance, made after a clear, reload or
\* update_rag_data of another instance has completed and re-created the
\* collection, observes the re-created collection and its chunks, and
\* leaves the instance attached to that collection.
C34_OtherInstancesFollow ==
    \A c \in Clients, o \in Clients :
        (/\ c # o
         /\ c_last[c] # NoValue
         /\ c_last[o] # NoValue
         /\ Get(c_last[o]).op \in ReplacingOps
         /\ Get(c_last[o]).outcome = "ok"
         /\ Get(c_last[c]).op \in {"search", "by_severity", "by_tags", "stats"}
         /\ Get(c_last[c]).backend_ok
         /\ Get(c_last[c]).before.exists
         /\ Get(c_last[c]).before.gen > 1
         /\ collection[o] = Some(Get(c_last[c]).before.gen)) =>
            /\ Get(c_last[c]).outcome = "ok"
            /\ Get(c_last[c]).count = Cardinality(Get(c_last[c]).before.chunks)
            /\ Live(db, collection[c])

\* ------------------------- concurrent validate_template calls

\* Each call is a coroutine of the event loop; between its awaits it runs
\* alone, and while it awaits asyncio.to_thread its validator process runs
\* beside the other calls and their processes.

\* The template contents given to the calls.
TempContents == {"id: sqli-check", "id: login-panel"}

\* A file of the temporary directory: the call that created it and what it
\* holds.
TempFile(owner, content) == [owner |-> owner, content |-> content]

\* The calls that hold a temporary file: from its creation to their return.
Holding(c) ==
    t_pc[c] \in {"created", "written", "running", "completed", "timeout",
                 "notfound"}

\* A choice of name that does not look at the files that exist.
AnyTemporaryName(files) == TempNames

\* tempfile.NamedTemporaryFile(mode='w', suffix='.yaml', delete=False): the
\* file is opened with O_EXCL under a random name, so the name is one that
\* no existing file has.
NamedTemporaryFile(files) == {n \in TempNames : files[n] = NoValue}

InitTemp ==
    /\ AgentIdle
    /\ ParseIdle
    /\ RunIdle
    /\ SearchIdle
    /\ StoreIdle
    /\ SplitIdle
    /\ AddIdle
    /\ ExtractIdle
    /\ AuthIdle
    /\ ServiceIdle
    /\ t_pc = [c \in Calls |-> "start"]
    /\ t_content \in [Calls -> TempContents]
    /\ t_path = [c \in Calls |-> NoValue]
    /\ t_files = [n \in TempNames |-> NoValue]
    /\ t_read = [c \in Calls |-> {}]
    /\ t_terminal = [c \in Calls |-> NoValue]
    /\ t_foreign = FALSE

\* Another call holds the file of that name.
Foreign(c, n) == \E o \in Calls \ {c} : Holding(o) /\ t_path[o] = Some(n)

\* validate_template 29: the temporary file is created, empty.
CreateTemp(c) ==
    /\ t_pc[c] = "start"
    /\ \E n \in NamedTemporaryFile(t_files) :
        /\ t_files' = [t_files EXCEPT ![n] = Some(TempFile(c, ""))]
        /\ t_path' = [t_path EXCEPT ![c] = Some(n)]
    /\ t_pc' = [t_pc EXCEPT ![c] = "created"]
    /\ UNCHANGED <<t_content, t_read, t_terminal, t_foreign>>
    /\ UNCHANGED notTempVars

\* validate_template 30-31: the content is written and the file closed; a
\* failing write leaves the call as an exception, with the file in place.
WriteTemp(c) ==
    /\ t_pc[c] = "created"
    /\ \E ok \in BOOLEAN :
        IF ok
        THEN /\ t_files' = [t_files EXCEPT
                                ![Get(t_path[c])] = Some(TempFile(c, t_content[c]))]
             /\ t_pc' = [t_pc EXCEPT ![c] = "written"]
        ELSE /\ t_pc' = [t_pc EXCEPT ![c] = "raised"]
             /\ UNCHANGED t_files
    /\ UNCHANGED <<t_content, t_path, t_read, t_terminal, t_foreign>>
    /\ UNCHANGED notTempVars

\* _run_validation 48-59 and _run_subprocess: subprocess.run starts the
\* validator with "-t temp_file_path", or raises FileNotFoundError.
SpawnValidator(c) ==
    /\ t_pc[c] = "written"
    /\ \E found \in BOOLEAN :
        t_pc' = [t_pc EXCEPT ![c] = IF found THEN "running" ELSE "notfound"]
    /\ UNCHANGED <<t_content, t_path, t_files, t_read, t_terminal, t_foreign>>
    /\ UNCHANGED notTempVars

\* The running validator process reads the file at its target path.
ValidatorReads(c) ==
    /\ t_pc[c] = "running"
    /\ t_read' = [t_read EXCEPT ![c] = @ \cup {t_files[Get(t_path[c])]}]
    /\ t_foreign' = (t_foreign \/ Foreign(c, Get(t_path[c])))
    /\ UNCHANGED <<t_pc, t_content, t_path, t_files, t_terminal>>
    /\ UNCHANGED notTempVars

\* The validator exits within the timeout.
ValidatorExits(c) ==
    /\ t_pc[c] = "running"
    /\ t_pc' = [t_pc EXCEPT ![c] = "completed"]
    /\ UNCHANGED <<t_content, t_path, t_files, t_read, t_terminal, t_foreign>>
    /\ UNCHANGED notTempVars

\* The timeout expires: subprocess.run kills the validator and waits for it.
ValidatorExpires(c) ==
    /\ t_pc[c] = "running"
    /\ t_pc' = [t_pc EXCEPT ![c] = "timeout"]
    /\ UNCHANGED <<t_content, t_path, t_files, t_read, t_terminal, t_foreign>>
    /\ UNCHANGED notTempVars

\* validate_template 33-36: _run_validation returns its result, the finally
\* clause unlinks temp_file_path (missing_ok), and the call returns.
ReturnTemp(c) ==
    /\ t_pc[c] \in {"completed", "timeout", "notfound"}
    /\ t_terminal' = [t_terminal EXCEPT ![c] = Some(t_pc[c])]
    /\ t_files' = [t_files EXCEPT ![Get(t_path[c])] = NoValue]
    /\ t_foreign' = (t_foreign \/ Foreign(c, Get(t_path[c])))
    /\ t_pc' = [t_pc EXCEPT ![c] = "returned"]
    /\ UNCHANGED <<t_content, t_path, t_read>>
    /\ UNCHANGED notTempVars

NextTemp ==
    \E c \in Calls :
        \/ CreateTemp(c)
        \/ WriteTemp(c)
        \/ SpawnValidator(c)
        \/ ValidatorReads(c)
        \/ ValidatorExits(c)
        \/ ValidatorExpires(c)
        \/ ReturnTemp(c)

SpecTemp == InitTemp /\ [][NextTemp]_vars

\* C35: under every interleaving of concurrent validate_template calls, a
\* call's temporary file holds exactly the call's content from the moment it
\* is written until the call unlinks it, so during the whole run of its
\* validator; the validator reads that content and nothing else; no call
\* reads or deletes a file another call holds; and once a call has returned,
\* completed, timed out or without a binary, its file no longer exists.
C35_TempFileIsolated ==
    /\ ~t_foreign
    /\ \A c \in Calls :
        /\ t_pc[c] \in {"written", "running", "completed", "timeout", "notfound"}
              => t_files[Get(t_path[c])] = Some(TempFile(c, t_content[c]))
        /\ t_read[c] \subseteq {Some(TempFile(c, t_content[c]))}
        /\ t_pc[c] = "returned" =>
              /\ t_terminal[c] \in {Some("completed"), Some("timeout"),
                                    Some("notfound")}
              /\ \A n \in TempNames :
                    t_files[n] = NoValue \/ Get(t_files[n]).owner # c

\* One call has returned after a timeout while another call, with another
\* content, has its validator running and reading its own file.
C35_Witness ==
    /\ t_pc[1] = "returned"
    /\ t_terminal[1] = Some("timeout")
    /\ t_read[1] # {}
    /\ t_pc[2] = "running"
    /\ t_read[2] # {}
    /\ t_content[1] # t_content[2]

====
